---- MODULE Spec2Model ----
(***************************************************************************)
(* A model of the request-interchange toolkit of endpnt: the cURL importer *)
(* (src/lib/curl-parser.ts), the code generator and the Postman bridge.    *)
(*                                                                         *)
(* Program strings are TLA+ strings; a character is a string of length 1.  *)
(* Every conversion (tokenizing, URL parsing, percent-coding, base64) is   *)
(* computed character by character, as the code and its platform do.       *)
(***************************************************************************)
EXTENDS Integers, Sequences, FiniteSets, TLC

(***************************************************************************)
(* String primitives (String.prototype of the platform).                   *)
(***************************************************************************)
At(s, i) == SubSeq(s, i, i)

\* s.slice(from) with 1-based from
SliceFrom(s, from) == SubSeq(s, from, Len(s))

StartsWith(s, p) == Len(s) >= Len(p) /\ SubSeq(s, 1, Len(p)) = p

EndsWith(s, p) == Len(s) >= Len(p) /\ SubSeq(s, Len(s) - Len(p) + 1, Len(s)) = p

StartsWithAt(s, p, i) == i + Len(p) - 1 <= Len(s) /\ SubSeq(s, i, i + Len(p) - 1) = p

Includes(s, p) == \E i \in 1..(Len(s) + 1) : StartsWithAt(s, p, i)

\* s.indexOf(p) + 1: the 1-based place of the first occurrence, 0 when absent
IndexOf(s, p) ==
  LET hits == {i \in 1..Len(s) : StartsWithAt(s, p, i)}
  IN  IF hits = {} THEN 0 ELSE CHOOSE i \in hits : \A j \in hits : i <= j

\* the first place >= from where one of the characters of set cs stands, 0 when none
IndexOfAny(s, cs, from) ==
  LET hits == {i \in from..Len(s) : At(s, i) \in cs}
  IN  IF hits = {} THEN 0 ELSE CHOOSE i \in hits : \A j \in hits : i <= j

LastIndexOf(s, c) ==
  LET hits == {i \in 1..Len(s) : At(s, i) = c}
  IN  IF hits = {} THEN 0 ELSE CHOOSE i \in hits : \A j \in hits : i >= j

\* the characters the regular expression class \s matches, among those modelled
WhiteSpace == {" ", "\t", "\n", "\r"}

Trim(s) ==
  LET keep == {i \in 1..Len(s) : At(s, i) \notin WhiteSpace}
  IN  IF keep = {} THEN ""
      ELSE SubSeq(s, CHOOSE i \in keep : \A j \in keep : i <= j,
                     CHOOSE i \in keep : \A j \in keep : i >= j)

LowerLetters == "abcdefghijklmnopqrstuvwxyz"
UpperLetters == "ABCDEFGHIJKLMNOPQRSTUVWXYZ"
Digits == "0123456789"

\* the characters of s, as a set
CharsOf(s) == {At(s, i) : i \in 1..Len(s)}

DigitChars == CharsOf(Digits)
IsDigit(c) == c \in DigitChars

UpperMap == [c \in CharsOf(LowerLetters) |-> At(UpperLetters, IndexOf(LowerLetters, c))]
LowerMap == [c \in CharsOf(UpperLetters) |-> At(LowerLetters, IndexOf(UpperLetters, c))]

UpperChar(c) == IF c \in DOMAIN UpperMap THEN UpperMap[c] ELSE c
LowerChar(c) == IF c \in DOMAIN LowerMap THEN LowerMap[c] ELSE c

\* the concatenation F(lo) \o ... \o F(hi), by halving
RECURSIVE ConcatRange(_, _, _)
ConcatRange(F(_), lo, hi) ==
  IF lo > hi THEN ""
  ELSE IF lo = hi THEN F(lo)
  ELSE ConcatRange(F, lo, (lo + hi) \div 2) \o ConcatRange(F, ((lo + hi) \div 2) + 1, hi)

\* a loop over lo..hi that carries a state: Step(state, i) for i = lo, ..., hi
RECURSIVE FoldRange(_, _, _, _)
FoldRange(Step(_, _), init, lo, hi) ==
  IF lo > hi THEN init
  ELSE IF lo = hi THEN Step(init, lo)
  ELSE LET left == FoldRange(Step, init, lo, (lo + hi) \div 2)
       IN  \* the test makes the lower half's state a value before the upper half runs
           IF left = left THEN FoldRange(Step, left, ((lo + hi) \div 2) + 1, hi) ELSE left

\* each character of s replaced by F of it
MapChars(F(_), s) == ConcatRange(LAMBDA i : F(At(s, i)), 1, Len(s))

ToUpperCase(s) == MapChars(UpperChar, s)
ToLowerCase(s) == MapChars(LowerChar, s)

\* s.replace(/pat/g, rep) for a literal pattern
RECURSIVE ReplaceAll(_, _, _)
ReplaceAll(s, pat, rep) ==
  LET i == IndexOf(s, pat)
  IN  IF i = 0 THEN s
      ELSE SubSeq(s, 1, i - 1) \o rep \o ReplaceAll(SliceFrom(s, i + Len(pat)), pat, rep)

\* s.replace(/\s+/g, ' ')
CollapseWhitespace(s) ==
  ConcatRange(LAMBDA i : IF At(s, i) \notin WhiteSpace THEN At(s, i)
                         ELSE IF i > 1 /\ At(s, i - 1) \in WhiteSpace THEN "" ELSE " ",
              1, Len(s))

\* parts.join(sep)
RECURSIVE Join(_, _)
Join(parts, sep) ==
  IF parts = <<>> THEN ""
  ELSE IF Len(parts) = 1 THEN parts[1]
       ELSE parts[1] \o sep \o Join(Tail(parts), sep)

\* s.split(sep) for a one-character separator
RECURSIVE Split(_, _)
Split(s, sep) ==
  LET i == IndexOf(s, sep)
  IN  IF i = 0 THEN <<s>> ELSE <<SubSeq(s, 1, i - 1)>> \o Split(SliceFrom(s, i + 1), sep)

(***************************************************************************)
(* Character codes.  The printable ASCII characters have their codes; the  *)
(* euro sign (U+20AC) stands for the characters beyond Latin-1.            *)
(***************************************************************************)
AsciiLow == " !\"#$%&'()*+,-./0123456789:;<=>?@ABCDEFGHIJKLMNOPQRSTUVWXYZ[\\]^_"
AsciiHigh == "abcdefghijklmnopqrstuvwxyz{|}~"

\* codes 32..95 and 97..126 (the grave accent, 96, is not modelled)
AsciiCode ==
  [c \in CharsOf(AsciiLow) \cup CharsOf(AsciiHigh) \cup {"\t", "\n", "\r"} |->
     IF IndexOf(AsciiLow, c) > 0 THEN 31 + IndexOf(AsciiLow, c)
     ELSE IF IndexOf(AsciiHigh, c) > 0 THEN 96 + IndexOf(AsciiHigh, c)
     ELSE IF c = "\t" THEN 9
     ELSE IF c = "\n" THEN 10
     ELSE 13]

CharCode(c) == IF c \in DOMAIN AsciiCode THEN AsciiCode[c] ELSE 8364

\* String.fromCharCode for the codes modelled ("?" stands for any other code)
CharOf(code) ==
  IF code >= 32 /\ code <= 95 THEN At(AsciiLow, code - 31)
  ELSE IF code >= 97 /\ code <= 126 THEN At(AsciiHigh, code - 96)
  ELSE IF code = 9 THEN "\t"
  ELSE IF code = 10 THEN "\n"
  ELSE IF code = 13 THEN "\r"
  ELSE "?"

\* the UTF-8 bytes of a character
Utf8Bytes(c) == IF CharCode(c) = 8364 THEN <<226, 130, 172>> ELSE <<CharCode(c)>>

HexDigits == "0123456789ABCDEF"
HexByte(b) == At(HexDigits, (b \div 16) + 1) \o At(HexDigits, (b % 16) + 1)
HexValue(c) == IndexOf(HexDigits, UpperChar(c)) - 1
HexChars == CharsOf(HexDigits) \cup CharsOf("abcdef")
IsHex(c) == c \in HexChars

RECURSIVE PercentBytes(_)
PercentBytes(bytes) ==
  IF bytes = <<>> THEN "" ELSE "%" \o HexByte(Head(bytes)) \o PercentBytes(Tail(bytes))

PercentEncodeChar(c) == PercentBytes(Utf8Bytes(c))

(***************************************************************************)
(* btoa: base64 of a Latin-1 string; a character beyond Latin-1 makes it   *)
(* throw InvalidCharacterError.                                            *)
(***************************************************************************)
Base64Alphabet == "ABCDEFGHIJKLMNOPQRSTUVWXYZabcdefghijklmnopqrstuvwxyz0123456789+/"

B64(n) == At(Base64Alphabet, n + 1)

\* the four characters that encode the group of up to three bytes starting at place i
Base64Group(s, i) ==
  LET n  == Len(s) - i + 1
      b1 == CharCode(At(s, i))
      b2 == IF n >= 2 THEN CharCode(At(s, i + 1)) ELSE 0
      b3 == IF n >= 3 THEN CharCode(At(s, i + 2)) ELSE 0
  IN  B64(b1 \div 4)
      \o B64((b1 % 4) * 16 + (b2 \div 16))
      \o (IF n >= 2 THEN B64((b2 % 16) * 4 + (b3 \div 64)) ELSE "=")
      \o (IF n >= 3 THEN B64(b3 % 64) ELSE "=")

Base64(s) == ConcatRange(LAMBDA g : Base64Group(s, 3 * g + 1), 0, ((Len(s) + 2) \div 3) - 1)

IsLatin1(s) == \A i \in 1..Len(s) : CharCode(At(s, i)) <= 255

\* <<>> when btoa throws, else <<encoded>>
Btoa(s) == IF IsLatin1(s) THEN <<Base64(s)>> ELSE <<>>

(***************************************************************************)
(* tokenize (curl-parser.ts): the quote-aware scan.  inQuote is "" for     *)
(* null.                                                                   *)
(***************************************************************************)
TokenizerStart == [tokens |-> <<>>, current |-> "", inQuote |-> "", escape |-> FALSE]

\* a loop that pushes the accumulator at every space or tab
TokenizeChar_FlushEmpty(t, char) ==
  IF t.escape THEN [t EXCEPT !.current = @ \o char, !.escape = FALSE]
  ELSE IF char = "\\" THEN [t EXCEPT !.escape = TRUE]
  ELSE IF t.inQuote # ""
       THEN IF char = t.inQuote THEN [t EXCEPT !.inQuote = ""]
            ELSE [t EXCEPT !.current = @ \o char]
  ELSE IF char = "\"" \/ char = "'" THEN [t EXCEPT !.inQuote = char]
  ELSE IF char = " " \/ char = "\t"
       THEN [t EXCEPT !.tokens = Append(@, t.current), !.current = ""]
  ELSE [t EXCEPT !.current = @ \o char]

\* one turn of the for loop, on character char
TokenizeChar(t, char) ==
  IF t.escape THEN [t EXCEPT !.current = @ \o char, !.escape = FALSE]
  ELSE IF char = "\\" THEN [t EXCEPT !.escape = TRUE]
  ELSE IF t.inQuote # ""
       THEN IF char = t.inQuote THEN [t EXCEPT !.inQuote = ""]
            ELSE [t EXCEPT !.current = @ \o char]
  ELSE IF char = "\"" \/ char = "'" THEN [t EXCEPT !.inQuote = char]
  ELSE IF char = " " \/ char = "\t"
       THEN IF t.current # "" THEN [t EXCEPT !.tokens = Append(@, t.current), !.current = ""]
            ELSE t
  ELSE [t EXCEPT !.current = @ \o char]

\* what tokenize returns after the loop
TokenizerResult(t) == IF t.current # "" THEN Append(t.tokens, t.current) ELSE t.tokens

tokenize(input) ==
  LET t == FoldRange(LAMBDA st, i : TokenizeChar(st, At(input, i)), TokenizerStart, 1, Len(input))
  IN  TokenizerResult(t)

(***************************************************************************)
(* The command as parseCurl normalizes it before tokenizing.               *)
(***************************************************************************)
Normalize(curlCommand) ==
  Trim(CollapseWhitespace(ReplaceAll(ReplaceAll(curlCommand, "\\\n", " "), "\\\r\n", " ")))

StripCurlPrefix(normalized) ==
  IF StartsWith(ToLowerCase(normalized), "curl ")
  THEN Trim(SliceFrom(normalized, 6))
  ELSE normalized

CurlTokens(curlCommand) == tokenize(StripCurlPrefix(Normalize(curlCommand)))

(***************************************************************************)
(* parseHeader and parseFormField: <<>> for null, else <<KeyValue>>.       *)
(***************************************************************************)
KeyValue(id, key, value, enabled) == [id |-> id, key |-> key, value |-> value, enabled |-> enabled]

parseHeader(headerStr, id) ==
  LET colonIndex == IndexOf(headerStr, ":")
  IN  IF colonIndex = 0 THEN <<>>
      ELSE <<KeyValue(id, Trim(SubSeq(headerStr, 1, colonIndex - 1)),
                      Trim(SliceFrom(headerStr, colonIndex + 1)), TRUE)>>

parseFormField(fieldStr, id) ==
  LET eqIndex == IndexOf(fieldStr, "=")
  IN  IF eqIndex = 0 THEN <<>>
      ELSE <<KeyValue(id, Trim(SubSeq(fieldStr, 1, eqIndex - 1)),
                      Trim(SliceFrom(fieldStr, eqIndex + 1)), TRUE)>>

(***************************************************************************)
(* isJson: JSON.parse accepts the text (the JSON grammar, by recursive     *)
(* descent).  Each recognizer returns the place after what it read, 0 when *)
(* the text does not match.                                                *)
(***************************************************************************)
SkipWs(s, i) ==
  LET rest == {j \in i..Len(s) : At(s, j) \notin WhiteSpace}
  IN  IF rest = {} THEN Len(s) + 1 ELSE CHOOSE j \in rest : \A k \in rest : j <= k

DigitsEnd(s, i) ==
  LET rest == {j \in i..Len(s) : ~IsDigit(At(s, j))}
  IN  IF rest = {} THEN Len(s) + 1 ELSE CHOOSE j \in rest : \A k \in rest : j <= k

\* the number of backslashes that stand directly before place k, from place lo on
BackslashRun(s, lo, k) ==
  LET others == {j \in lo..(k - 1) : At(s, j) # "\\"}
  IN  IF others = {} THEN k - lo ELSE k - 1 - (CHOOSE j \in others : \A m \in others : j >= m)

\* a string literal starting at place i: the closing quote is the first quote that
\* no backslash escapes; every escape in between is one JSON knows, and no
\* control character stands in it
JsonString(s, i) ==
  LET closing == {j \in (i + 1)..Len(s) : At(s, j) = "\"" /\ BackslashRun(s, i + 1, j) % 2 = 0}
      close == CHOOSE j \in closing : \A m \in closing : j <= m
  IN  IF i > Len(s) \/ At(s, i) # "\"" \/ closing = {} THEN 0
      ELSE IF \A k \in (i + 1)..(close - 1) :
                /\ CharCode(At(s, k)) >= 32
                /\ (At(s, k) = "\\" /\ BackslashRun(s, i + 1, k) % 2 = 0) =>
                     \/ At(s, k + 1) \in {"\"", "\\", "/", "b", "f", "n", "r", "t"}
                     \/ /\ At(s, k + 1) = "u" /\ k + 5 < close
                        /\ \A h \in (k + 2)..(k + 5) : IsHex(At(s, h))
           THEN close + 1
           ELSE 0

JsonNumber(s, i) ==
  LET Exponent(d) == IF DigitsEnd(s, d) > d THEN DigitsEnd(s, d) ELSE 0
      AfterFraction(c) ==
        IF c = 0 THEN 0
        ELSE IF c <= Len(s) /\ At(s, c) \in {"e", "E"}
        THEN Exponent(c + 1 + (IF c + 1 <= Len(s) /\ At(s, c + 1) \in {"+", "-"} THEN 1 ELSE 0))
        ELSE c
      AfterInteger(b) ==
        IF b = 0 THEN 0
        ELSE IF b <= Len(s) /\ At(s, b) = "."
        THEN AfterFraction(IF DigitsEnd(s, b + 1) > b + 1 THEN DigitsEnd(s, b + 1) ELSE 0)
        ELSE AfterFraction(b)
      AfterSign(a) ==
        AfterInteger(IF a <= Len(s) /\ At(s, a) = "0" THEN a + 1
                     ELSE IF DigitsEnd(s, a) > a THEN DigitsEnd(s, a) ELSE 0)
  IN  AfterSign(IF i <= Len(s) /\ At(s, i) = "-" THEN i + 1 ELSE i)

RECURSIVE JsonValue(_, _)
RECURSIVE JsonElements(_, _)
RECURSIVE JsonMembers(_, _)

\* after "[" or ",": value, then "," or "]"
JsonElements(s, i) ==
  LET Closing(n) ==
        IF n > Len(s) THEN 0
        ELSE IF At(s, n) = "]" THEN n + 1
        ELSE IF At(s, n) = "," THEN JsonElements(s, n + 1)
        ELSE 0
      AfterValue(e) == IF e = 0 THEN 0 ELSE Closing(SkipWs(s, e))
  IN  AfterValue(JsonValue(s, SkipWs(s, i)))

\* after "{" or ",": string ":" value, then "," or "}"
JsonMembers(s, i) ==
  LET Closing(n) ==
        IF n > Len(s) THEN 0
        ELSE IF At(s, n) = "}" THEN n + 1
        ELSE IF At(s, n) = "," THEN JsonMembers(s, n + 1)
        ELSE 0
      AfterValue(e) == IF e = 0 THEN 0 ELSE Closing(SkipWs(s, e))
      AtColon(c) ==
        IF c > Len(s) \/ At(s, c) # ":" THEN 0 ELSE AfterValue(JsonValue(s, SkipWs(s, c + 1)))
      AfterKey(k) == IF k = 0 THEN 0 ELSE AtColon(SkipWs(s, k))
  IN  AfterKey(JsonString(s, SkipWs(s, i)))

JsonValue(s, i) ==
  IF i > Len(s) THEN 0
  ELSE IF At(s, i) = "{"
       THEN (IF SkipWs(s, i + 1) <= Len(s) /\ At(s, SkipWs(s, i + 1)) = "}"
             THEN SkipWs(s, i + 1) + 1 ELSE JsonMembers(s, i + 1))
  ELSE IF At(s, i) = "["
       THEN (IF SkipWs(s, i + 1) <= Len(s) /\ At(s, SkipWs(s, i + 1)) = "]"
             THEN SkipWs(s, i + 1) + 1 ELSE JsonElements(s, i + 1))
  ELSE IF At(s, i) = "\"" THEN JsonString(s, i)
  ELSE IF StartsWithAt(s, "true", i) THEN i + 4
  ELSE IF StartsWithAt(s, "false", i) THEN i + 5
  ELSE IF StartsWithAt(s, "null", i) THEN i + 4
  ELSE JsonNumber(s, i)

isJson(str) ==
  LET AtEnd(e) == e # 0 /\ SkipWs(str, e) = Len(str) + 1
  IN  AtEnd(JsonValue(str, SkipWs(str, 1)))

(***************************************************************************)
(* new URL(input), for the http and https schemes (the platform's URL      *)
(* parser).  The parse fails on input without a scheme, with an empty or   *)
(* forbidden host, or with a port that is no number.  Inputs of another    *)
(* scheme, hosts in brackets and hosts ending in a number that is not a    *)
(* dotted quad are outside the model's inputs.                             *)
(***************************************************************************)
ForbiddenHostChars == {" ", "#", "/", ":", "<", ">", "?", "@", "[", "\\", "]", "^", "|", "%"}
PathEncodeSet == {" ", "\"", "#", "<", ">", "?", "{", "}"}
QueryEncodeSet == {" ", "\"", "#", "<", ">", "'"}

EncodeWith(set, c) == IF c \in set \/ CharCode(c) > 126 THEN PercentEncodeChar(c) ELSE c

EncodeString(set, s) == MapChars(LAMBDA c : EncodeWith(set, c), s)

RemoveChars(s, cs) == MapChars(LAMBDA c : IF c \in cs THEN "" ELSE c, s)

RECURSIVE StripLeadingZeros(_)
StripLeadingZeros(s) ==
  IF Len(s) > 1 /\ At(s, 1) = "0" THEN StripLeadingZeros(SliceFrom(s, 2)) ELSE s

RECURSIVE DecimalValue(_)
DecimalValue(s) ==
  IF s = "" THEN 0 ELSE DecimalValue(SubSeq(s, 1, Len(s) - 1)) * 10 + (IndexOf(Digits, At(s, Len(s))) - 1)

AllDigits(s) == \A i \in 1..Len(s) : IsDigit(At(s, i))

DefaultPort(scheme) == IF scheme = "https" THEN "443" ELSE "80"

\* the path's "." and ".." segments resolved
RECURSIVE NormalizeSegments(_, _, _)
NormalizeSegments(segs, i, out) ==
  IF i > Len(segs) THEN out
  ELSE LET seg == segs[i]
           last == i = Len(segs)
       IN  IF seg = ".."
           THEN NormalizeSegments(segs, i + 1,
                  (IF out = <<>> THEN out ELSE SubSeq(out, 1, Len(out) - 1)) \o (IF last THEN <<"">> ELSE <<>>))
           ELSE IF seg = "."
           THEN NormalizeSegments(segs, i + 1, out \o (IF last THEN <<"">> ELSE <<>>))
           ELSE NormalizeSegments(segs, i + 1, Append(out, seg))

NormalizePath(raw) ==
  LET slashed == ReplaceAll(raw, "\\", "/")
      segs == IF slashed = "" THEN <<"">> ELSE Split(SliceFrom(slashed, 2), "/")
      norm == NormalizeSegments(segs, 1, <<>>)
  IN  "/" \o EncodeString(PathEncodeSet, Join(norm, "/"))

ValidHost(host) ==
  /\ host # ""
  /\ \A i \in 1..Len(host) : At(host, i) \notin ForbiddenHostChars /\ CharCode(At(host, i)) >= 32
  /\ LET labels == Split(host, ".")
         lastLabel == labels[Len(labels)]
     IN  (lastLabel # "" /\ AllDigits(lastLabel)) =>
           /\ Len(labels) = 4
           /\ \A k \in 1..4 : /\ labels[k] # "" /\ AllDigits(labels[k])
                              /\ StripLeadingZeros(labels[k]) = labels[k]
                              /\ DecimalValue(labels[k]) <= 255

FailedURL == [ok |-> FALSE, scheme |-> "", credentials |-> "", host |-> "", port |-> "",
              pathname |-> "", query |-> "", hasQuery |-> FALSE, fragment |-> "", hasFragment |-> FALSE]

\* the first place from place from on that holds a character of cs, or the end
StopAt(s, cs, from) ==
  LET hits == {i \in from..Len(s) : At(s, i) \in cs}
  IN  IF hits = {} THEN Len(s) + 1 ELSE CHOOSE i \in hits : \A j \in hits : i <= j

UrlScheme(s) ==
  LET Of(lower) == IF StartsWith(lower, "https:") THEN "https"
                   ELSE IF StartsWith(lower, "http:") THEN "http" ELSE ""
  IN  Of(ToLowerCase(s))

\* credentials, host and port text of "credentials@host:port"
ParseAuthority(authority) ==
  LET at == LastIndexOf(authority, "@")
      hostport == SliceFrom(authority, at + 1)
      colon == IndexOf(hostport, ":")
  IN  [credentials |-> IF at = 0 THEN "" ELSE SubSeq(authority, 1, at - 1),
       host |-> ToLowerCase(IF colon = 0 THEN hostport ELSE SubSeq(hostport, 1, colon - 1)),
       rawPort |-> IF colon = 0 THEN "" ELSE SliceFrom(hostport, colon + 1)]

\* the places where the authority starts and ends, where the path ends and
\* where the fragment's "#" stands (the end of s when there is none)
AuthorityStart(s) == StopAt(s, CharsOf(s) \ {"/", "\\"}, Len(UrlScheme(s)) + 2)
AuthorityEnd(s) == StopAt(s, {"/", "\\", "?", "#"}, AuthorityStart(s))
PathEnd(s) == StopAt(s, {"?", "#"}, AuthorityEnd(s))
HashAt(s) == StopAt(s, {"#"}, PathEnd(s))

\* the URL record of text s, given its scheme, authority and places
UrlRecord(s, scheme, auth, authEnd, pathEnd, hashAt) ==
  LET port == IF auth.rawPort = "" THEN "" ELSE StripLeadingZeros(auth.rawPort)
  IN  IF scheme = "" \/ ~ValidHost(auth.host) \/ ~AllDigits(auth.rawPort)
         \/ (auth.rawPort # "" /\ (Len(port) > 5 \/ DecimalValue(port) > 65535))
      THEN FailedURL
      ELSE [ok |-> TRUE, scheme |-> scheme, credentials |-> auth.credentials, host |-> auth.host,
            port |-> IF port = DefaultPort(scheme) THEN "" ELSE port,
            pathname |-> NormalizePath(SubSeq(s, authEnd, pathEnd - 1)),
            query |-> EncodeString(QueryEncodeSet, SubSeq(s, pathEnd + 1, hashAt - 1)),
            hasQuery |-> pathEnd <= Len(s) /\ At(s, pathEnd) = "?",
            fragment |-> SliceFrom(s, hashAt + 1),
            hasFragment |-> hashAt <= Len(s)]

\* the parse of a text without tabs and newlines
ParseCleanURL(s) ==
  UrlRecord(s, UrlScheme(s), ParseAuthority(SubSeq(s, AuthorityStart(s), AuthorityEnd(s) - 1)),
            AuthorityEnd(s), PathEnd(s), HashAt(s))

ParseURL(input) == ParseCleanURL(RemoveChars(Trim(input), {"\t", "\n", "\r"}))

\* url.origin
Origin(url) == url.scheme \o "://" \o url.host \o (IF url.port = "" THEN "" ELSE ":" \o url.port)

(***************************************************************************)
(* url.searchParams: the application/x-www-form-urlencoded parser and      *)
(* serializer.                                                             *)
(***************************************************************************)
\* a percent sign followed by two hex digits stands at place i
EscapeAt(s, i) == i >= 1 /\ i + 2 <= Len(s) /\ At(s, i) = "%" /\ IsHex(At(s, i + 1)) /\ IsHex(At(s, i + 2))

PercentDecode(s) ==
  ConcatRange(LAMBDA i : IF EscapeAt(s, i) THEN CharOf(HexValue(At(s, i + 1)) * 16 + HexValue(At(s, i + 2)))
                         ELSE IF EscapeAt(s, i - 1) \/ EscapeAt(s, i - 2) THEN ""
                         ELSE At(s, i),
              1, Len(s))

FormDecode(s) == PercentDecode(ReplaceAll(s, "+", " "))

RECURSIVE ParsePairs(_, _)
ParsePairs(parts, i) ==
  IF i > Len(parts) THEN <<>>
  ELSE LET eq == IndexOf(parts[i], "=")
           name == IF eq = 0 THEN parts[i] ELSE SubSeq(parts[i], 1, eq - 1)
           value == IF eq = 0 THEN "" ELSE SliceFrom(parts[i], eq + 1)
       IN  (IF parts[i] = "" THEN <<>> ELSE <<[key |-> FormDecode(name), value |-> FormDecode(value)]>>)
           \o ParsePairs(parts, i + 1)

\* the list of name-value pairs of url.searchParams
SearchParams(url) == IF url.query = "" THEN <<>> ELSE ParsePairs(Split(url.query, "&"), 1)

FormKeep == CharsOf("*-._") \cup CharsOf(Digits) \cup CharsOf(LowerLetters) \cup CharsOf(UpperLetters)
FormEncodeChar(c) == IF c \in FormKeep THEN c ELSE IF c = " " THEN "+" ELSE PercentEncodeChar(c)
FormEncode(s) == MapChars(FormEncodeChar, s)

RECURSIVE SerializePairs(_, _)
SerializePairs(pairs, i) ==
  IF i > Len(pairs) THEN ""
  ELSE (IF i > 1 THEN "&" ELSE "") \o FormEncode(pairs[i].key) \o "=" \o FormEncode(pairs[i].value)
       \o SerializePairs(pairs, i + 1)

\* searchParams.set(name, value): the first pair of that name takes the value and
\* the other pairs of that name go; with no such pair the pair is appended
SearchParamsSet(pairs, name, value) ==
  LET hits == {i \in 1..Len(pairs) : pairs[i].key = name}
      first == CHOOSE i \in hits : \A j \in hits : i <= j
      keep == {i \in 1..Len(pairs) : i \notin hits \/ i = first}
      F[i \in 0..Len(pairs)] ==
        IF i = 0 THEN <<>>
        ELSE IF i \notin keep THEN F[i - 1]
        ELSE Append(F[i - 1], IF i = first THEN [key |-> name, value |-> value] ELSE pairs[i])
  IN  IF hits = {} THEN Append(pairs, [key |-> name, value |-> value]) ELSE F[Len(pairs)]

\* url.toString() of a URL whose searchParams list is pairs
Href(url, pairs, touched) ==
  LET query == IF touched THEN SerializePairs(pairs, 1) ELSE url.query
      hasQuery == IF touched THEN pairs # <<>> ELSE url.hasQuery
  IN  Origin([url EXCEPT !.host = (IF url.credentials = "" THEN "" ELSE url.credentials \o "@") \o url.host])
      \o url.pathname
      \o (IF hasQuery THEN "?" \o query ELSE "")
      \o (IF url.hasFragment THEN "#" \o url.fragment ELSE "")

\* encodeURIComponent
UriKeep == CharsOf("-_.!~*'()") \cup CharsOf(Digits) \cup CharsOf(LowerLetters) \cup CharsOf(UpperLetters)
EncodeURIComponentChar(c) == IF c \in UriKeep THEN c ELSE PercentEncodeChar(c)
encodeURIComponent(s) == MapChars(EncodeURIComponentChar, s)

(***************************************************************************)
(* parseCurl (curl-parser.ts).  The k-th id that uuidv4 yields during one  *)
(* call is the number k: the generator never repeats.  ids counts the ids  *)
(* drawn so far.                                                           *)
(***************************************************************************)
NewRequest ==
  [id |-> 1, name |-> "Imported Request", method |-> "GET", url |-> "",
   headers |-> <<>>, params |-> <<>>, body |-> [type |-> "none"]]

\* -X, --request
SetMethod(request, value) == [request EXCEPT !.method = ToUpperCase(value)]

\* a promotion that never happens
PromoteMethod_Never(request) == request

\* "if (request.method === 'GET') request.method = 'POST'"
PromoteMethod(request) ==
  IF request.method = "GET" THEN [request EXCEPT !.method = "POST"] ELSE request

\* -d, --data, --data-raw, --data-binary
ApplyData(request, bodyContent) ==
  PromoteMethod([request EXCEPT !.body =
    [type |-> IF isJson(bodyContent) THEN "json" ELSE "raw", content |-> bodyContent]])

\* -F, --form
ApplyForm(request, value, id) ==
  LET based == IF "formData" \notin DOMAIN request.body
               THEN [request EXCEPT !.body = [type |-> "form-data", formData |-> <<>>]]
               ELSE request
  IN  PromoteMethod([based EXCEPT !.body.formData = @ \o parseFormField(value, id)])

\* --data-urlencode
ApplyUrlencode(request, value, id) ==
  LET based == IF request.body.type # "x-www-form-urlencoded"
               THEN [request EXCEPT !.body = [type |-> "x-www-form-urlencoded", formData |-> <<>>]]
               ELSE request
  IN  PromoteMethod([based EXCEPT !.body.formData = @ \o parseFormField(value, id)])

PushHeader(request, id, key, value) ==
  [request EXCEPT !.headers = Append(@, KeyValue(id, key, value, TRUE))]

\* --compressed
ApplyCompressed(request, id) ==
  IF \E k \in 1..Len(request.headers) : ToLowerCase(request.headers[k].key) = "accept-encoding"
  THEN request
  ELSE PushHeader(request, id, "Accept-Encoding", "gzip, deflate, br")

\* token.replace(/^['"]|['"]$/g, '')
CleanUrl(token) ==
  LET a == IF token # "" /\ At(token, 1) \in {"'", "\""} THEN SliceFrom(token, 2) ELSE token
  IN  IF a # "" /\ At(a, Len(a)) \in {"'", "\""} THEN SubSeq(a, 1, Len(a) - 1) ELSE a

\* /^https?:\/\//
MatchesHttp(s) == StartsWith(s, "http://") \/ StartsWith(s, "https://")

IsUrlToken(token) == ~StartsWith(token, "-") \/ MatchesHttp(token)

LooksLikeUrl(cleanUrl) ==
  MatchesHttp(cleanUrl) \/ Includes(cleanUrl, ".") \/ StartsWith(cleanUrl, "localhost")

\* the argument parseCurl gives new URL
UrlInput(s) == IF StartsWith(s, "http") THEN s ELSE "http://" \o s

\* the params pushed in reverse order
RECURSIVE ParamsOf_Reversed(_, _, _)
ParamsOf_Reversed(pairs, i, ids) ==
  IF i > Len(pairs) THEN <<>>
  ELSE ParamsOf_Reversed(pairs, i + 1, ids) \o <<KeyValue(ids + i, pairs[i].key, pairs[i].value, TRUE)>>

\* url.searchParams.forEach: one param pushed per pair, in order
RECURSIVE ParamsOf(_, _, _)
ParamsOf(pairs, i, ids) ==
  IF i > Len(pairs) THEN <<>>
  ELSE <<KeyValue(ids + i, pairs[i].key, pairs[i].value, TRUE)>> \o ParamsOf(pairs, i + 1, ids)

\* the URL branch: the request after it (ids drawn: one per param pushed)
ApplyUrl(request, token, ids) ==
  LET Parsed(cleanUrl, url) ==
        IF url.ok
        THEN [request EXCEPT !.url = Origin(url) \o url.pathname,
                             !.params = @ \o ParamsOf(SearchParams(url), 1, ids)]
        ELSE [request EXCEPT !.url = cleanUrl]
      Cleaned(cleanUrl) ==
        IF ~LooksLikeUrl(cleanUrl) THEN request ELSE Parsed(cleanUrl, ParseURL(UrlInput(cleanUrl)))
  IN  Cleaned(CleanUrl(token))

NoValueFlags == {"-o", "--output", "-L", "--location", "-k", "--insecure", "-v", "--verbose", "-s", "--silent"}

ValueFlags ==
  {"-X", "--request", "-H", "--header", "-d", "--data", "--data-raw", "--data-binary",
   "-F", "--form", "--data-urlencode", "-A", "--user-agent", "-u", "--user", "-b", "--cookie"}

\* how far the cursor i moves over the token at place i: a flag that takes a value
\* moves it by two (also when no token follows), "Skip other flags" by two when it
\* takes the next token for the flag's value
Consumes(tokens, i) ==
  LET token == tokens[i]
  IN  IF token \in ValueFlags THEN 2
      ELSE IF token = "--compressed" \/ IsUrlToken(token) THEN 1
      ELSE IF token \notin NoValueFlags /\ i + 1 <= Len(tokens) /\ ~StartsWith(tokens[i + 1], "-") THEN 2
      ELSE 1

\* the branch of the loop body taken for the token at place i:
\* [threw, request, ids], ids counting the uuids drawn so far
ApplyToken(tokens, i, request, ids) ==
  LET token == tokens[i]
      hasValue == i + 1 <= Len(tokens)
      value == IF hasValue THEN tokens[i + 1] ELSE ""
      Went(after) ==
        [threw |-> FALSE, request |-> after,
         ids |-> ids + (Len(after.headers) - Len(request.headers))
                     + (Len(after.params) - Len(request.params))
                     + (IF "formData" \in DOMAIN after.body
                        THEN (IF after.body = request.body THEN 0 ELSE 1) ELSE 0)]
      Authorized(encoded) ==
        IF encoded = <<>> THEN [threw |-> TRUE, request |-> request, ids |-> ids]
        ELSE Went(PushHeader(request, ids + 1, "Authorization", "Basic " \o encoded[1]))
  IN
    IF token \in ValueFlags /\ ~hasValue THEN Went(request)
    ELSE IF token = "-X" \/ token = "--request" THEN Went(SetMethod(request, value))
    ELSE IF token = "-H" \/ token = "--header"
    THEN Went([request EXCEPT !.headers = @ \o parseHeader(value, ids + 1)])
    ELSE IF token = "-d" \/ token = "--data" \/ token = "--data-raw" \/ token = "--data-binary"
    THEN Went(ApplyData(request, value))
    ELSE IF token = "-F" \/ token = "--form" THEN Went(ApplyForm(request, value, ids + 1))
    ELSE IF token = "--data-urlencode" THEN Went(ApplyUrlencode(request, value, ids + 1))
    ELSE IF token = "-A" \/ token = "--user-agent"
    THEN Went(PushHeader(request, ids + 1, "User-Agent", value))
    ELSE IF token = "-u" \/ token = "--user"
    THEN Authorized(Btoa(value))
    ELSE IF token = "-b" \/ token = "--cookie"
    THEN Went(PushHeader(request, ids + 1, "Cookie", value))
    ELSE IF token = "--compressed" THEN Went(ApplyCompressed(request, ids + 1))
    ELSE IF IsUrlToken(token) THEN Went(ApplyUrl(request, token, ids))
    ELSE Went(request)

\* the while loop from place i on
RECURSIVE ParseTokens(_, _, _, _)
ParseTokens(tokens, i, request, ids) ==
  IF i > Len(tokens) THEN [threw |-> FALSE, request |-> request]
  ELSE LET After(step) ==
             IF step.threw THEN [threw |-> TRUE, request |-> request]
             ELSE ParseTokens(tokens, i + Consumes(tokens, i), step.request, step.ids)
       IN  After(ApplyToken(tokens, i, request, ids))

\* "Set name from URL"
NameOf(request) ==
  LET Named(url) == IF url.ok THEN request.method \o " " \o url.pathname
                    ELSE request.method \o " Request"
  IN  IF request.url = "" THEN request.name ELSE Named(ParseURL(UrlInput(request.url)))

\* parseCurl: [threw |-> TRUE] when the call throws, else the request returned
parseCurl(curlCommand) ==
  LET Outcome(r) ==
        IF r.threw THEN [threw |-> TRUE, request |-> NewRequest]
        ELSE [threw |-> FALSE, request |-> [r.request EXCEPT !.name = NameOf(r.request)]]
  IN  Outcome(ParseTokens(CurlTokens(curlCommand), 1, NewRequest, 1))

(***************************************************************************)
(* The code generator.  A Record<string, string> is the sequence of its    *)
(* entries in the order Object.entries lists them.                         *)
(***************************************************************************)
\* a filter that looks at the key only
EnabledWithKey_KeyOnly(list) == SelectSeq(list, LAMBDA p : p.key # "")

\* filter(p => p.enabled && p.key)
EnabledWithKey(list) == SelectSeq(list, LAMBDA p : p.enabled /\ p.key # "")

\* a key that is an array index: such keys are listed first, in ascending order
\* (keys of ten digits are outside the model's inputs)
IsArrayIndex(key) ==
  key # "" /\ AllDigits(key) /\ StripLeadingZeros(key) = key /\ Len(key) <= 9

\* obj[key] = value
ObjectSet(obj, key, value) ==
  LET Later(i) == IF IsArrayIndex(key)
                  THEN ~IsArrayIndex(obj[i].key) \/ DecimalValue(obj[i].key) > DecimalValue(key)
                  ELSE FALSE
      Before(n) == SubSeq(obj, 1, n) \o <<[key |-> key, value |-> value]>> \o SubSeq(obj, n + 1, Len(obj))
  IN  IF key = "__proto__" THEN obj
      ELSE IF \E i \in 1..Len(obj) : obj[i].key = key
      THEN [i \in 1..Len(obj) |-> IF obj[i].key = key THEN [key |-> key, value |-> value] ELSE obj[i]]
      ELSE Before(Cardinality({i \in 1..Len(obj) : ~Later(i)}))

\* !obj[key]
ObjectLacks(obj, key) == \A i \in 1..Len(obj) : obj[i].key = key => obj[i].value = ""

\* forEach(h => { obj[h.key] = h.value }) from entry i on
RECURSIVE ObjectFrom(_, _, _)
ObjectFrom(list, i, obj) ==
  IF i > Len(list) THEN obj
  ELSE ObjectFrom(list, i + 1, ObjectSet(obj, list[i].key, list[i].value))

\* request.body?.type
BodyType(request) == IF "body" \in DOMAIN request THEN request.body.type ELSE "none"

\* forEach(p => url.searchParams.set(p.key, p.value)) from entry i on
RECURSIVE SetParams(_, _, _)
SetParams(pairs, params, i) ==
  IF i > Len(params) THEN pairs
  ELSE SetParams(SearchParamsSet(pairs, params[i].key, params[i].value), params, i + 1)

\* map(p => `${encodeURIComponent(p.key)}=${encodeURIComponent(p.value)}`).join('&')
QueryString(list) ==
  Join([i \in 1..Len(list) |-> encodeURIComponent(list[i].key) \o "=" \o encodeURIComponent(list[i].value)], "&")

buildFullUrl(request) ==
  LET Merged(enabledParams, url) ==
        IF enabledParams = <<>> THEN request.url
        ELSE IF url.ok THEN Href(url, SetParams(SearchParams(url), enabledParams, 1), TRUE)
        ELSE request.url \o (IF Includes(request.url, "?") THEN "&" ELSE "?") \o QueryString(enabledParams)
  IN  IF request.url = "" THEN "" ELSE Merged(EnabledWithKey(request.params), ParseURL(request.url))

getEnabledHeaders(request) ==
  LET Typed(headers) ==
        IF BodyType(request) = "json" /\ ObjectLacks(headers, "Content-Type")
        THEN ObjectSet(headers, "Content-Type", "application/json")
        ELSE IF BodyType(request) = "x-www-form-urlencoded" /\ ObjectLacks(headers, "Content-Type")
        THEN ObjectSet(headers, "Content-Type", "application/x-www-form-urlencoded")
        ELSE headers
  IN  Typed(ObjectFrom(EnabledWithKey(request.headers), 1, <<>>))

\* JSON.stringify of a string
JsonQuote(s) ==
  "\"" \o MapChars(LAMBDA c : IF c = "\"" THEN "\\\"" ELSE IF c = "\\" THEN "\\\\"
                              ELSE IF c = "\n" THEN "\\n" ELSE IF c = "\r" THEN "\\r"
                              ELSE IF c = "\t" THEN "\\t" ELSE c, s) \o "\""

\* JSON.stringify of a Record<string, string>
JsonStringify(obj) ==
  "{" \o Join([i \in 1..Len(obj) |-> JsonQuote(obj[i].key) \o ":" \o JsonQuote(obj[i].value)], ",") \o "}"

\* getBody: <<>> for null, else <<the string>>
getBody(request) ==
  IF BodyType(request) = "none" THEN <<>>
  ELSE IF BodyType(request) \in {"json", "raw"}
  THEN (IF "content" \in DOMAIN request.body /\ request.body.content # ""
        THEN <<request.body.content>> ELSE <<>>)
  ELSE IF BodyType(request) = "x-www-form-urlencoded" /\ "formData" \in DOMAIN request.body
  THEN <<QueryString(EnabledWithKey(request.body.formData))>>
  ELSE IF BodyType(request) = "form-data" /\ "formData" \in DOMAIN request.body
  THEN <<JsonStringify(ObjectFrom(EnabledWithKey(request.body.formData), 1, <<>>))>>
  ELSE <<>>

\* if (body)
HasBody(body) == body # <<>> /\ body[1] # ""

\* one line per entry of headers
HeaderLines(headers, Line(_, _, _)) ==
  [i \in 1..Len(headers) |-> Line(headers[i].key, headers[i].value, i = Len(headers))]

\* a generator that writes the method of every request
generateCurl_AlwaysMethod(request) ==
  LET Parts(url, headers, body) ==
        <<"curl", "-X " \o request.method, "'" \o url \o "'">>
        \o HeaderLines(headers, LAMBDA key, value, last : "-H '" \o key \o ": " \o value \o "'")
        \o (IF HasBody(body) THEN <<"-d '" \o ReplaceAll(body[1], "'", "'\\''") \o "'">> ELSE <<>>)
  IN  Join(Parts(buildFullUrl(request), getEnabledHeaders(request), getBody(request)), " \\\n  ")

generateCurl(request) ==
  LET Parts(url, headers, body) ==
        <<"curl">>
        \o (IF request.method # "GET" THEN <<"-X " \o request.method>> ELSE <<>>)
        \o <<"'" \o url \o "'">>
        \o HeaderLines(headers, LAMBDA key, value, last : "-H '" \o key \o ": " \o value \o "'")
        \o (IF HasBody(body) THEN <<"-d '" \o ReplaceAll(body[1], "'", "'\\''") \o "'">> ELSE <<>>)
  IN  Join(Parts(buildFullUrl(request), getEnabledHeaders(request), getBody(request)), " \\\n  ")

\* ' '.repeat(options.indentSize || 2)
Indent(options) ==
  LET size == IF options.indentSize = 0 THEN 2 ELSE options.indentSize
  IN  ConcatRange(LAMBDA i : " ", 1, size)

\* options.useSingleQuotes ? "'" : '"'
Quote(options) == IF options.useSingleQuotes THEN "'" ELSE "\""

\* the headers block of the fetch and axios snippets
HeadersBlock(headers, indent, q) ==
  IF headers = <<>> THEN <<>>
  ELSE <<indent \o "headers: {">>
       \o HeaderLines(headers, LAMBDA key, value, last :
            indent \o indent \o q \o key \o q \o ": " \o q \o value \o q \o (IF last THEN "" ELSE ","))
       \o <<indent \o "},">>

generateFetch(request, options) ==
  LET Lines(indent, q, url, headers, body) ==
        <<"fetch(" \o q \o url \o q \o ", {",
          indent \o "method: " \o q \o request.method \o q \o ",">>
        \o HeadersBlock(headers, indent, q)
        \o (IF ~HasBody(body) THEN <<>>
            ELSE IF BodyType(request) = "json"
            THEN <<indent \o "body: JSON.stringify(" \o body[1] \o "),">>
            ELSE <<indent \o "body: " \o q \o ReplaceAll(body[1], "\"", "\\\"") \o q \o ",">>)
        \o <<"})",
             indent \o ".then(response => response.json())",
             indent \o ".then(data => console.log(data))",
             indent \o ".catch(error => console.error(" \o q \o "Error:" \o q \o ", error));">>
  IN  Join(Lines(Indent(options), Quote(options), buildFullUrl(request),
                 getEnabledHeaders(request), getBody(request)), "\n")

generateAxios(request, options) ==
  LET Lines(indent, q, url, headers, body) ==
        <<"axios({",
          indent \o "method: " \o q \o ToLowerCase(request.method) \o q \o ",",
          indent \o "url: " \o q \o url \o q \o ",">>
        \o HeadersBlock(headers, indent, q)
        \o (IF ~HasBody(body) THEN <<>>
            ELSE IF BodyType(request) = "json" THEN <<indent \o "data: " \o body[1] \o ",">>
            ELSE <<indent \o "data: " \o q \o body[1] \o q \o ",">>)
        \o <<"})",
             indent \o ".then(response => console.log(response.data))",
             indent \o ".catch(error => console.error(error));">>
  IN  Join(Lines(Indent(options), Quote(options), buildFullUrl(request),
                 getEnabledHeaders(request), getBody(request)), "\n")

generatePython(request) ==
  LET Lines(url, headers, body) ==
        <<"import requests", "">>
        \o (IF headers = <<>> THEN <<>>
            ELSE <<"headers = {">>
                 \o HeaderLines(headers, LAMBDA key, value, last :
                      "    \"" \o key \o "\": \"" \o value \o "\",")
                 \o <<"}", "">>)
        \o (IF HasBody(body) /\ BodyType(request) = "json" THEN <<"payload = " \o body[1], "">> ELSE <<>>)
        \o <<"response = requests." \o ToLowerCase(request.method) \o "(\"" \o url \o "\""
             \o (IF headers = <<>> THEN "" ELSE ", headers=headers")
             \o (IF ~HasBody(body) THEN ""
                 ELSE IF BodyType(request) = "json" THEN ", json=payload"
                 ELSE ", data=\"" \o body[1] \o "\"")
             \o ")",
             "", "print(response.status_code)", "print(response.json())">>
  IN  Join(Lines(buildFullUrl(request), getEnabledHeaders(request), getBody(request)), "\n")

\* the grave accent that delimits Go's raw string
Backtick == SubSeq("`'", 1, 1)

generateGo(request) ==
  LET Lines(url, headers, body) ==
        <<"package main", "", "import (", "    \"fmt\"", "    \"io\"", "    \"net/http\"">>
        \o (IF HasBody(body) THEN <<"    \"strings\"">> ELSE <<>>)
        \o <<")", "", "func main() {">>
        \o (IF HasBody(body)
            THEN <<"    payload := strings.NewReader(" \o Backtick \o body[1] \o Backtick \o ")",
                   "    req, err := http.NewRequest(\"" \o request.method \o "\", \"" \o url \o "\", payload)">>
            ELSE <<"    req, err := http.NewRequest(\"" \o request.method \o "\", \"" \o url \o "\", nil)">>)
        \o <<"    if err != nil {", "        panic(err)", "    }", "">>
        \o HeaderLines(headers, LAMBDA key, value, last :
             "    req.Header.Add(\"" \o key \o "\", \"" \o value \o "\")")
        \o <<"", "    client := &http.Client{}", "    resp, err := client.Do(req)",
             "    if err != nil {", "        panic(err)", "    }", "    defer resp.Body.Close()",
             "", "    body, _ := io.ReadAll(resp.Body)", "    fmt.Println(string(body))", "}">>
  IN  Join(Lines(buildFullUrl(request), getEnabledHeaders(request), getBody(request)), "\n")

generatePhp(request) ==
  LET Lines(url, headers, body) ==
        <<"<?php", "", "$curl = curl_init();", "", "curl_setopt_array($curl, [",
          "    CURLOPT_URL => \"" \o url \o "\",",
          "    CURLOPT_RETURNTRANSFER => true,",
          "    CURLOPT_CUSTOMREQUEST => \"" \o request.method \o "\",">>
        \o (IF headers = <<>> THEN <<>>
            ELSE <<"    CURLOPT_HTTPHEADER => [">>
                 \o HeaderLines(headers, LAMBDA key, value, last :
                      "        \"" \o key \o ": " \o value \o "\",")
                 \o <<"    ],">>)
        \o (IF HasBody(body)
            THEN <<"    CURLOPT_POSTFIELDS => \"" \o ReplaceAll(body[1], "\"", "\\\"") \o "\",">>
            ELSE <<>>)
        \o <<"]);", "", "$response = curl_exec($curl);", "$err = curl_error($curl);", "",
             "curl_close($curl);", "", "if ($err) {", "    echo \"Error: \" . $err;", "} else {",
             "    echo $response;", "}">>
  IN  Join(Lines(buildFullUrl(request), getEnabledHeaders(request), getBody(request)), "\n")

capitalize(str) == IF str = "" THEN "" ELSE ToUpperCase(At(str, 1)) \o SliceFrom(str, 2)

generateRuby(request) ==
  LET Lines(url, headers, body) ==
        <<"require 'net/http'", "require 'uri'", "require 'json'", "",
          "uri = URI.parse(\"" \o url \o "\")",
          "http = Net::HTTP.new(uri.host, uri.port)",
          "http.use_ssl = uri.scheme == 'https'", "",
          "request = Net::HTTP::" \o capitalize(ToLowerCase(request.method)) \o ".new(uri.request_uri)">>
        \o HeaderLines(headers, LAMBDA key, value, last :
             "request[\"" \o key \o "\"] = \"" \o value \o "\"")
        \o (IF HasBody(body) THEN <<"request.body = '" \o body[1] \o "'">> ELSE <<>>)
        \o <<"", "response = http.request(request)", "puts response.code", "puts response.body">>
  IN  Join(Lines(buildFullUrl(request), getEnabledHeaders(request), getBody(request)), "\n")

\* headers['Content-Type'] || 'text/plain'
ContentTypeOf(headers) ==
  IF ObjectLacks(headers, "Content-Type") THEN "text/plain"
  ELSE (CHOOSE h \in {headers[i] : i \in 1..Len(headers)} : h.key = "Content-Type").value

generateCSharp(request) ==
  LET Async == "        var response = await client." \o capitalize(ToLowerCase(request.method)) \o "Async(\""
      Lines(url, headers, body) ==
        <<"using System;", "using System.Net.Http;", "using System.Threading.Tasks;", "",
          "class Program", "{", "    static async Task Main()", "    {",
          "        using var client = new HttpClient();", "">>
        \o SelectSeq(HeaderLines(headers, LAMBDA key, value, last :
               IF ToLowerCase(key) # "content-type"
               THEN "        client.DefaultRequestHeaders.Add(\"" \o key \o "\", \"" \o value \o "\");"
               ELSE ""),
             LAMBDA line : line # "")
        \o (IF HasBody(body)
            THEN <<"        var content = new StringContent(@\"" \o ReplaceAll(body[1], "\"", "\"\"")
                   \o "\", System.Text.Encoding.UTF8, \"" \o ContentTypeOf(headers) \o "\");",
                   Async \o url \o "\", content);">>
            ELSE IF request.method = "GET"
            THEN <<"        var response = await client.GetAsync(\"" \o url \o "\");">>
            ELSE <<Async \o url \o "\", null);">>)
        \o <<"", "        Console.WriteLine(response.StatusCode);",
             "        Console.WriteLine(await response.Content.ReadAsStringAsync());", "    }", "}">>
  IN  Join(Lines(buildFullUrl(request), getEnabledHeaders(request), getBody(request)), "\n")

generateJava(request) ==
  LET Lines(url, headers, body) ==
        <<"import java.net.URI;", "import java.net.http.HttpClient;",
          "import java.net.http.HttpRequest;", "import java.net.http.HttpResponse;", "",
          "public class Main {", "    public static void main(String[] args) throws Exception {",
          "        HttpClient client = HttpClient.newHttpClient();", "",
          "        HttpRequest request = HttpRequest.newBuilder()",
          "            .uri(URI.create(\"" \o url \o "\"))">>
        \o HeaderLines(headers, LAMBDA key, value, last :
             "            .header(\"" \o key \o "\", \"" \o value \o "\")")
        \o (IF HasBody(body)
            THEN <<"            .method(\"" \o request.method \o "\", HttpRequest.BodyPublishers.ofString(\""
                   \o ReplaceAll(body[1], "\"", "\\\"") \o "\"))">>
            ELSE <<"            .method(\"" \o request.method \o "\", HttpRequest.BodyPublishers.noBody())">>)
        \o <<"            .build();", "",
             "        HttpResponse<String> response = client.send(request, HttpResponse.BodyHandlers.ofString());",
             "", "        System.out.println(response.statusCode());",
             "        System.out.println(response.body());", "    }", "}">>
  IN  Join(Lines(buildFullUrl(request), getEnabledHeaders(request), getBody(request)), "\n")

CodeLanguage == {"curl", "fetch", "axios", "python", "go", "php", "ruby", "csharp", "java"}

\* generators[language](request, options)
generateCode(request, language, options) ==
  CASE language = "curl" -> generateCurl(request)
    [] language = "fetch" -> generateFetch(request, options)
    [] language = "axios" -> generateAxios(request, options)
    [] language = "python" -> generatePython(request)
    [] language = "go" -> generateGo(request)
    [] language = "php" -> generatePhp(request)
    [] language = "ruby" -> generateRuby(request)
    [] language = "csharp" -> generateCSharp(request)
    [] language = "java" -> generateJava(request)

\* options = {}
DefaultOptions == [indentSize |-> 0, useSingleQuotes |-> FALSE]

(***************************************************************************)
(* The values of the platform that a JSON text holds or a Postman document *)
(* is made of: undefined, null, booleans, numbers (kept as their literal), *)
(* strings, arrays, and objects (the sequence of their properties in the   *)
(* order Object.keys lists them).                                          *)
(***************************************************************************)
Undefined == [type |-> "undefined"]
Null == [type |-> "null"]
JsBoolean(b) == [type |-> "boolean", bool |-> b]
JsNumber(literal) == [type |-> "number", literal |-> literal]
JsString(s) == [type |-> "string", str |-> s]
JsArray(items) == [type |-> "array", items |-> items]
JsObject(props) == [type |-> "object", props |-> props]
Prop(key, value) == [key |-> key, value |-> value]

\* a number literal that denotes zero: no digit of its mantissa is above 0
IsZeroLiteral(literal) ==
  LET e == IndexOfAny(literal, {"e", "E"}, 1)
      mantissa == IF e = 0 THEN literal ELSE SubSeq(literal, 1, e - 1)
  IN  CharsOf(mantissa) \cap CharsOf("123456789") = {}

\* ToBoolean: what an if, a ! or a || makes of a value
Truthy(v) ==
  CASE v.type \in {"undefined", "null"} -> FALSE
    [] v.type = "boolean" -> v.bool
    [] v.type = "number" -> ~IsZeroLiteral(v.literal)
    [] v.type = "string" -> v.str # ""
    [] OTHER -> TRUE

\* v is null or undefined: reading a property of it throws TypeError
Nullish(v) == v.type \in {"undefined", "null"}

\* v[key] of a value that is not nullish: the property of an object, undefined
\* where there is none (method names and array indexes are never asked for)
Get(v, key) ==
  IF v.type = "object" /\ \E i \in 1..Len(v.props) : v.props[i].key = key
  THEN v.props[CHOOSE i \in 1..Len(v.props) : v.props[i].key = key].value
  ELSE Undefined

\* list || [], for a list that is an array or absent
OrEmpty(list) == IF Truthy(list) THEN list.items ELSE <<>>

\* text || '', for a text that is a string or absent
OrBlank(text) == IF Truthy(text) THEN text.str ELSE ""

(***************************************************************************)
(* JSON.stringify(value) without indentation, and JSON.parse(text).  An    *)
(* undefined property is left out of an object, an undefined element of    *)
(* an array is written null.                                               *)
(***************************************************************************)
RECURSIVE JsonText(_)
JsonText(v) ==
  CASE v.type = "string" -> JsonQuote(v.str)
    [] v.type = "number" -> v.literal
    [] v.type = "boolean" -> (IF v.bool THEN "true" ELSE "false")
    [] v.type \in {"null", "undefined"} -> "null"
    [] v.type = "array" ->
         "[" \o Join([i \in 1..Len(v.items) |-> JsonText(v.items[i])], ",") \o "]"
    [] v.type = "object" ->
         LET written == SelectSeq(v.props, LAMBDA p : p.value.type # "undefined")
         IN  "{" \o Join([i \in 1..Len(written) |->
                            JsonQuote(written[i].key) \o ":" \o JsonText(written[i].value)], ",") \o "}"

\* the character an escape sequence starting at place i (a backslash) denotes;
\* a character without a place in the code table reads as "?"
EscapedChar(s, i) ==
  CASE At(s, i + 1) = "n" -> "\n"
    [] At(s, i + 1) = "t" -> "\t"
    [] At(s, i + 1) = "r" -> "\r"
    [] At(s, i + 1) = "b" -> CharOf(8)
    [] At(s, i + 1) = "f" -> CharOf(12)
    [] At(s, i + 1) = "u" ->
         (IF ToUpperCase(SubSeq(s, i + 2, i + 5)) = "20AC" THEN "€"
          ELSE CharOf(HexValue(At(s, i + 2)) * 4096 + HexValue(At(s, i + 3)) * 256
                      + HexValue(At(s, i + 4)) * 16 + HexValue(At(s, i + 5))))
    [] OTHER -> At(s, i + 1)

\* the string that the inside of a JSON string literal denotes
Unescape(s) ==
  LET Starts(i) == i >= 1 /\ At(s, i) = "\\" /\ BackslashRun(s, 1, i) % 2 = 0
  IN  ConcatRange(LAMBDA i :
                    IF Starts(i) THEN EscapedChar(s, i)
                    ELSE IF Starts(i - 1) THEN ""
                    ELSE IF \E j \in (i - 5)..(i - 2) : Starts(j) /\ At(s, j + 1) = "u" THEN ""
                    ELSE At(s, i),
                  1, Len(s))

\* the place of the value of the member that starts at place i, and the place
\* after that value and the white space behind it
MemberValue(s, i) == SkipWs(s, SkipWs(s, JsonString(s, SkipWs(s, i))) + 1)
MemberEnd(s, i) == SkipWs(s, JsonValue(s, MemberValue(s, i)))
ElementEnd(s, i) == SkipWs(s, JsonValue(s, SkipWs(s, i)))

\* the value that the JSON text denotes from place i on (the text is valid JSON).
\* A key written twice keeps its first place and its last value.
RECURSIVE ParseValue(_, _), ParseElements(_, _), ParseMembers(_, _)
ParseElements(s, i) ==
  <<ParseValue(s, SkipWs(s, i))>>
  \o (IF At(s, ElementEnd(s, i)) = "," THEN ParseElements(s, ElementEnd(s, i) + 1) ELSE <<>>)

ParseMembers(s, i) ==
  <<Prop(Unescape(SubSeq(s, SkipWs(s, i) + 1, JsonString(s, SkipWs(s, i)) - 2)),
         ParseValue(s, MemberValue(s, i)))>>
  \o (IF At(s, MemberEnd(s, i)) = "," THEN ParseMembers(s, MemberEnd(s, i) + 1) ELSE <<>>)

ParseValue(s, i) ==
  IF At(s, i) = "{"
  THEN JsObject(IF At(s, SkipWs(s, i + 1)) = "}" THEN <<>>
                ELSE ObjectFrom(ParseMembers(s, i + 1), 1, <<>>))
  ELSE IF At(s, i) = "["
  THEN JsArray(IF At(s, SkipWs(s, i + 1)) = "]" THEN <<>> ELSE ParseElements(s, i + 1))
  ELSE IF At(s, i) = "\"" THEN JsString(Unescape(SubSeq(s, i + 1, JsonString(s, i) - 2)))
  ELSE IF StartsWithAt(s, "true", i) THEN JsBoolean(TRUE)
  ELSE IF StartsWithAt(s, "false", i) THEN JsBoolean(FALSE)
  ELSE IF StartsWithAt(s, "null", i) THEN Null
  ELSE JsNumber(SubSeq(s, i, JsonNumber(s, i) - 1))

\* JSON.parse: <<>> when it throws SyntaxError, else <<the value>>
JsonParse(text) == IF isJson(text) THEN <<ParseValue(text, SkipWs(text, 1))>> ELSE <<>>

(***************************************************************************)
(* exportToPostman.  A collection, a folder, a request and a KeyValue are  *)
(* records; an optional field that is undefined is a field the record does *)
(* not have.  The Postman document is a value of the platform.             *)
(***************************************************************************)
PostmanSchema == "https://schema.getpostman.com/json/collection/v2.1.0/collection.json"

\* record.description, undefined when there is none
DescriptionOf(record) ==
  IF "description" \in DOMAIN record THEN JsString(record.description) ELSE Undefined

\* an export that writes every entry as enabled
PostmanHeaders_NeverDisabled(list) ==
  [i \in 1..Len(list) |->
     JsObject(<<Prop("key", JsString(list[i].key)), Prop("value", JsString(list[i].value)),
                Prop("disabled", JsBoolean(FALSE)),
                Prop("description", DescriptionOf(list[i]))>>)]

\* map(h => ({ key, value, disabled: !h.enabled, description: h.description }))
PostmanHeaders(list) ==
  [i \in 1..Len(list) |->
     JsObject(<<Prop("key", JsString(list[i].key)), Prop("value", JsString(list[i].value)),
                Prop("disabled", JsBoolean(~list[i].enabled)),
                Prop("description", DescriptionOf(list[i]))>>)]

\* map(f => ({ key, value, disabled: !f.enabled }))
PostmanFields(list) ==
  [i \in 1..Len(list) |->
     JsObject(<<Prop("key", JsString(list[i].key)), Prop("value", JsString(list[i].value)),
                Prop("disabled", JsBoolean(~list[i].enabled))>>)]

\* request.body.content || ''
ContentOf(body) == IF "content" \in DOMAIN body THEN body.content ELSE ""

\* request.body.formData || []
FormDataOf(body) == IF "formData" \in DOMAIN body THEN body.formData ELSE <<>>

\* the body of a request as exportToPostman writes it: undefined for the type
\* none and for a type it has no mode for
PostmanBodyOf(request) ==
  CASE BodyType(request) = "json" ->
         JsObject(<<Prop("mode", JsString("raw")), Prop("raw", JsString(ContentOf(request.body))),
                    Prop("options", JsObject(<<Prop("raw",
                       JsObject(<<Prop("language", JsString("json"))>>))>>))>>)
    [] BodyType(request) = "raw" ->
         JsObject(<<Prop("mode", JsString("raw")), Prop("raw", JsString(ContentOf(request.body)))>>)
    [] BodyType(request) = "form-data" ->
         JsObject(<<Prop("mode", JsString("formdata")),
                    Prop("formdata", JsArray(PostmanFields(FormDataOf(request.body))))>>)
    [] BodyType(request) = "x-www-form-urlencoded" ->
         JsObject(<<Prop("mode", JsString("urlencoded")),
                    Prop("urlencoded", JsArray(PostmanFields(FormDataOf(request.body))))>>)
    [] OTHER -> Undefined

\* convertRequest of exportToPostman
ExportRequest(request) ==
  JsObject(<<Prop("method", JsString(request.method)),
             Prop("header", JsArray(PostmanHeaders(request.headers))),
             Prop("body", PostmanBodyOf(request)),
             Prop("url", JsObject(<<Prop("raw", JsString(request.url)),
                                    Prop("query", JsArray(PostmanHeaders(request.params)))>>))>>)

\* map(r => ({ name: r.name, request: convertRequest(r) }))
ExportRequests(requests) ==
  [i \in 1..Len(requests) |->
     JsObject(<<Prop("name", JsString(requests[i].name)), Prop("request", ExportRequest(requests[i]))>>)]

\* convertFolder of exportToPostman
RECURSIVE ExportFolder(_)
ExportFolder(folder) ==
  JsObject(<<Prop("name", JsString(folder.name)),
             Prop("description", DescriptionOf(folder)),
             Prop("item", JsArray(ExportRequests(folder.requests)
                                  \o [i \in 1..Len(folder.folders) |-> ExportFolder(folder.folders[i])]))>>)

exportToPostman(collection) ==
  JsObject(<<Prop("info", JsObject(<<Prop("name", JsString(collection.name)),
                                     Prop("description", DescriptionOf(collection)),
                                     Prop("schema", JsString(PostmanSchema))>>)),
             Prop("item", JsArray(ExportRequests(collection.requests)
                                  \o [i \in 1..Len(collection.folders) |->
                                        ExportFolder(collection.folders[i])])),
             Prop("variable", JsArray(PostmanFields(collection.variables)))>>)

(***************************************************************************)
(* importFromPostman.  ids counts the ids that uuidv4 has yielded before;  *)
(* every function that draws ids says how many have been drawn after it.   *)
(* now is the time the call reads from the clock.  The fields of a         *)
(* document have the types that the interface PostmanCollection declares.  *)
(***************************************************************************)
\* the record with the field set to the string v, or without it when v is undefined
WithField(record, field, v) ==
  IF v.type = "undefined" THEN record ELSE (field :> v.str) @@ record

\* an import that takes the disabled flag for the enabled flag
ImportedKeyValue_Disabled(entry, id) ==
  WithField(WithField([id |-> id, enabled |-> Truthy(Get(entry, "disabled"))],
                      "key", Get(entry, "key")), "value", Get(entry, "value"))

\* { id: uuidv4(), key, value, enabled: !disabled }
ImportedKeyValue(entry, id) ==
  WithField(WithField([id |-> id, enabled |-> ~Truthy(Get(entry, "disabled"))],
                      "key", Get(entry, "key")), "value", Get(entry, "value"))

\* the same with description: h.description
DescribedKeyValue(entry, id) ==
  WithField(ImportedKeyValue(entry, id), "description", Get(entry, "description"))

convertHeaders(headers, ids) ==
  IF ~Truthy(headers) THEN <<>>
  ELSE [i \in 1..Len(headers.items) |-> DescribedKeyValue(headers.items[i], ids + i)]

convertParams(url, ids) ==
  IF ~Truthy(url) THEN [url |-> "", params |-> <<>>]
  ELSE IF url.type = "string" THEN [url |-> url.str, params |-> <<>>]
  ELSE [url |-> OrBlank(Get(url, "raw")),
        params |-> [i \in 1..Len(OrEmpty(Get(url, "query"))) |->
                      DescribedKeyValue(OrEmpty(Get(url, "query"))[i], ids + i)]]

\* a map that draws one id for the whole list
ImportedFields_OneId(list, ids) == [i \in 1..Len(list) |-> ImportedKeyValue(list[i], ids + 1)]

\* map(f => ({ id: uuidv4(), key, value, enabled: !f.disabled }))
ImportedFields(list, ids) == [i \in 1..Len(list) |-> ImportedKeyValue(list[i], ids + i)]

convertBody(body, ids) ==
  IF ~Truthy(body) THEN [type |-> "none"]
  ELSE IF Get(body, "mode") = JsString("raw")
  THEN [type |-> IF Get(Get(Get(body, "options"), "raw"), "language") = JsString("json")
                 THEN "json" ELSE "raw",
        content |-> OrBlank(Get(body, "raw"))]
  ELSE IF Get(body, "mode") = JsString("formdata")
  THEN [type |-> "form-data", formData |-> ImportedFields(OrEmpty(Get(body, "formdata")), ids)]
  ELSE IF Get(body, "mode") = JsString("urlencoded")
  THEN [type |-> "x-www-form-urlencoded",
        formData |-> ImportedFields(OrEmpty(Get(body, "urlencoded")), ids)]
  ELSE [type |-> "none"]

\* event.script?.exec?.join('\n') || ''
ScriptContent(event) ==
  Join([i \in 1..Len(OrEmpty(Get(Get(event, "script"), "exec"))) |->
          OrEmpty(Get(Get(event, "script"), "exec"))[i].str], "\n")

\* the loop of convertScripts from event i on; result holds the scripts found so far
RECURSIVE ScriptsFrom(_, _, _)
ScriptsFrom(events, i, result) ==
  IF i > Len(events) THEN result
  ELSE IF Trim(ScriptContent(events[i])) = "" THEN ScriptsFrom(events, i + 1, result)
  ELSE IF Get(events[i], "listen") = JsString("test")
  THEN ScriptsFrom(events, i + 1,
         ("testScript" :> [enabled |-> TRUE, content |-> ScriptContent(events[i])]) @@ result)
  ELSE IF Get(events[i], "listen") = JsString("prerequest")
  THEN ScriptsFrom(events, i + 1,
         ("preRequestScript" :> [enabled |-> TRUE, content |-> ScriptContent(events[i])]) @@ result)
  ELSE ScriptsFrom(events, i + 1, result)

\* the scripts as the fields they become in the request
convertScripts(events) == IF ~Truthy(events) THEN <<>> ELSE ScriptsFrom(events.items, 1, <<>>)

\* the number of ids that a converted body holds
FieldCount(body) == Len(FormDataOf(body))

\* convertRequest of importFromPostman: request is <<>> for null.  The ids of
\* the params are drawn first, then the id of the request, of the headers and
\* of the fields of the body
convertRequest(item, ids, now) ==
  LET Converted(converted, headers, body) ==
        [request |->
           <<WithField([id |-> ids + Len(converted.params) + 1,
                        method |-> IF Truthy(Get(Get(item, "request"), "method"))
                                   THEN Get(Get(item, "request"), "method").str ELSE "GET",
                        url |-> converted.url, headers |-> headers, params |-> converted.params,
                        body |-> body, createdAt |-> now, updatedAt |-> now]
                       @@ convertScripts(Get(item, "event")),
                       "name", Get(item, "name"))>>,
         ids |-> ids + Len(converted.params) + 1 + Len(headers) + FieldCount(body)]
      WithHeaders(converted, headers) ==
        Converted(converted, headers,
                  convertBody(Get(Get(item, "request"), "body"),
                              ids + Len(converted.params) + 1 + Len(headers)))
      WithParams(converted) ==
        WithHeaders(converted,
                    convertHeaders(Get(Get(item, "request"), "header"),
                                   ids + Len(converted.params) + 1))
  IN  IF ~Truthy(Get(item, "request")) THEN [request |-> <<>>, ids |-> ids]
      ELSE WithParams(convertParams(Get(Get(item, "request"), "url"), ids))

\* if (req) requests.push(req), if (folder) folders.push(folder)
PushRequest(acc, converted) ==
  [requests |-> acc.requests \o converted.request, folders |-> acc.folders, ids |-> converted.ids]

PushFolder(acc, converted) ==
  [requests |-> acc.requests, folders |-> acc.folders \o converted.folder, ids |-> converted.ids]

\* the loop over the entries of an item list, from entry i on: an entry with a
\* request becomes a request, every other entry a folder.  convertFolder: folder
\* is <<>> for null; the id of a folder is drawn after the ids of what it holds
RECURSIVE ConvertItems(_, _, _, _), convertFolder(_, _, _)
ConvertItems(items, i, acc, now) ==
  IF i > Len(items) THEN acc
  ELSE ConvertItems(items, i + 1,
                    IF Truthy(Get(items[i], "request"))
                    THEN PushRequest(acc, convertRequest(items[i], acc.ids, now))
                    ELSE PushFolder(acc, convertFolder(items[i], acc.ids, now)),
                    now)

convertFolder(item, ids, now) ==
  LET Converted(acc) ==
        [folder |-> <<WithField(WithField([id |-> acc.ids + 1, requests |-> acc.requests,
                                           folders |-> acc.folders],
                                          "name", Get(item, "name")),
                                "description", Get(item, "description"))>>,
         ids |-> acc.ids + 1]
  IN  IF Truthy(Get(item, "request")) THEN [folder |-> <<>>, ids |-> ids]
      ELSE Converted(ConvertItems(OrEmpty(Get(item, "item")), 1,
                                  [requests |-> <<>>, folders |-> <<>>, ids |-> ids], now))

\* the collection, and the number of ids drawn when it is returned
importFromPostman(postmanCollection, ids, now) ==
  LET Converted(acc) ==
        [collection |->
           WithField(WithField([id |-> acc.ids + 1, requests |-> acc.requests,
                                folders |-> acc.folders,
                                variables |-> ImportedFields(OrEmpty(Get(postmanCollection, "variable")),
                                                             acc.ids + 1),
                                createdAt |-> now, updatedAt |-> now],
                               "name", Get(Get(postmanCollection, "info"), "name")),
                     "description", Get(Get(postmanCollection, "info"), "description")),
         ids |-> acc.ids + 1 + Len(OrEmpty(Get(postmanCollection, "variable")))]
  IN  Converted(ConvertItems(OrEmpty(Get(postmanCollection, "item")), 1,
                             [requests |-> <<>>, folders |-> <<>>, ids |-> ids], now))

(***************************************************************************)
(* parseImportedFile.  The outcome says what the call threw ("" when it    *)
(* returned), which format it took the document for, and what it returned. *)
(***************************************************************************)
Thrown(error) == [threw |-> error, format |-> "", result |-> <<>>]

\* schema.includes('getpostman.com') of a string or an array
SchemaIncludes(schema) ==
  IF schema.type = "string" THEN Includes(schema.str, "getpostman.com")
  ELSE \E i \in 1..Len(schema.items) : schema.items[i] = JsString("getpostman.com")

\* parsed.id && parsed.requests !== undefined, and what follows
NativeOrUnrecognized(parsed) ==
  IF Truthy(Get(parsed, "id")) /\ Get(parsed, "requests") # Undefined
  THEN [threw |-> "", format |-> "native", result |-> <<parsed>>]
  ELSE Thrown("Unrecognized collection format")

parseImportedFile(content, ids, now) ==
  LET Routed(parsed, schema) ==
        IF Nullish(parsed) THEN Thrown("TypeError")
        ELSE IF Nullish(schema) THEN NativeOrUnrecognized(parsed)
        ELSE IF schema.type \notin {"string", "array"} THEN Thrown("TypeError")
        ELSE IF SchemaIncludes(schema)
        THEN [threw |-> "", format |-> "postman",
              result |-> <<importFromPostman(parsed, ids, now).collection>>]
        ELSE NativeOrUnrecognized(parsed)
      Parsed(parsed) ==
        IF parsed = <<>> THEN Thrown("SyntaxError")
        ELSE Routed(parsed[1], Get(Get(parsed[1], "info"), "schema"))
  IN  Parsed(JsonParse(content))

(***************************************************************************)
(* The history of the app store (src/store/app-store.ts).  An entry is the *)
(* number that names it.                                                   *)
(***************************************************************************)
MAX_HISTORY_ENTRIES == 100

\* list.slice(0, n)
SliceTo(list, n) == SubSeq(list, 1, IF Len(list) < n THEN Len(list) ELSE n)

\* a store that keeps every entry
addHistoryEntry_Unbounded(history, entry) == <<entry>> \o history

\* the history after addHistoryEntry(entry)
addHistoryEntry(history, entry) == SliceTo(<<entry>> \o history, MAX_HISTORY_ENTRIES)

\* the history after clearHistory()
clearHistory == <<>>

\* the history after setHistory(history)
setHistory(history) == SliceTo(history, MAX_HISTORY_ENTRIES)

(***************************************************************************)
(* The requests of the app store (src/store/app-store.ts).  A request is   *)
(* [id, name, method, updatedAt], a folder [id, requests, folders], a      *)
(* collection [id, requests, folders, updatedAt]; null is <<>> and a       *)
(* string id s is <<s>> where the code takes string | null.  Updates are a *)
(* record of the fields they set.                                          *)
(***************************************************************************)
\* { ...req, ...updates, updatedAt: now }
Updated(req, updates, now) == [updatedAt |-> now] @@ updates @@ req

\* list.find(r => r.id === requestId): <<>> or <<the first such request>>
FindRequest(list, requestId) ==
  LET hits == {i \in 1..Len(list) : list[i].id = requestId}
  IN  IF hits = {} THEN <<>> ELSE <<list[CHOOSE i \in hits : \A j \in hits : i <= j]>>

\* list.filter(r => r.id !== requestId)
WithoutRequest(list, requestId) == SelectSeq(list, LAMBDA r : r.id # requestId)

updateRequestInCollection(collections, collectionId, requestId, updates, now) ==
  [c \in 1..Len(collections) |->
     IF collections[c].id = collectionId
     THEN [collections[c] EXCEPT
             !.requests = [r \in 1..Len(@) |->
                             IF @[r].id = requestId THEN Updated(@[r], updates, now) ELSE @[r]],
             !.updatedAt = now]
     ELSE collections[c]]

\* the state after updateActiveRequest(updates): state is [collections,
\* activeRequest, activeCollectionId]
updateActiveRequest(state, updates, now) ==
  IF state.activeRequest = <<>> THEN state
  ELSE LET updatedRequest == Updated(state.activeRequest[1], updates, now)
       IN  [state EXCEPT
              !.activeRequest = <<updatedRequest>>,
              !.collections =
                 IF state.activeCollectionId # <<>> /\ state.activeCollectionId[1] # ""
                 THEN updateRequestInCollection(@, state.activeCollectionId[1],
                                                updatedRequest.id, updates, now)
                 ELSE @]

\* fromFolderId && f.id === fromFolderId
IsSource(f, fromFolderId) ==
  fromFolderId # <<>> /\ fromFolderId[1] # "" /\ f.id = fromFolderId[1]

\* the requests removeFromFolders assigns to movedRequest, in order
RECURSIVE FoundInFolders(_, _, _)
FoundInFolders(folders, requestId, fromFolderId) ==
  IF folders = <<>> THEN <<>>
  ELSE (IF IsSource(Head(folders), fromFolderId)
        THEN FindRequest(Head(folders).requests, requestId)
        ELSE FoundInFolders(Head(folders).folders, requestId, fromFolderId))
       \o FoundInFolders(Tail(folders), requestId, fromFolderId)

RECURSIVE removeFromFolders(_, _, _)
removeFromFolders(folders, requestId, fromFolderId) ==
  [i \in 1..Len(folders) |->
     IF IsSource(folders[i], fromFolderId)
     THEN [folders[i] EXCEPT !.requests = WithoutRequest(@, requestId)]
     ELSE IF folders[i].folders # <<>>
     THEN [folders[i] EXCEPT !.folders = removeFromFolders(@, requestId, fromFolderId)]
     ELSE folders[i]]

RECURSIVE addToFolders(_, _, _)
addToFolders(folders, request, toFolderId) ==
  [i \in 1..Len(folders) |->
     IF <<folders[i].id>> = toFolderId
     THEN [folders[i] EXCEPT !.requests = Append(@, request)]
     ELSE IF folders[i].folders # <<>>
     THEN [folders[i] EXCEPT !.folders = addToFolders(@, request, toFolderId)]
     ELSE folders[i]]

\* the collections after moveRequestToFolder
moveRequestToFolder(collections, collectionId, requestId, fromFolderId, toFolderId, now) ==
  LET Moved(col) ==
        IF fromFolderId = <<>> THEN FindRequest(col.requests, requestId)
        ELSE LET found == FoundInFolders(col.folders, requestId, fromFolderId)
             IN  IF found = <<>> THEN <<>> ELSE <<found[Len(found)]>>
      Removed(col) ==
        IF fromFolderId = <<>>
        THEN [col EXCEPT !.requests = WithoutRequest(@, requestId)]
        ELSE [col EXCEPT !.folders = removeFromFolders(@, requestId, fromFolderId)]
      Added(col, movedRequest) ==
        IF toFolderId = <<>>
        THEN [col EXCEPT !.requests = Append(@, movedRequest), !.updatedAt = now]
        ELSE [col EXCEPT !.folders = addToFolders(@, movedRequest, toFolderId),
                         !.updatedAt = now]
  IN  [c \in 1..Len(collections) |->
         IF collections[c].id # collectionId THEN collections[c]
         ELSE IF Moved(collections[c]) = <<>> THEN collections[c]
         ELSE Added(Removed(collections[c]), Moved(collections[c])[1])]

(***************************************************************************)
(* The in-memory storage (InMemoryStorage of src/lib/storage).  Its Map is *)
(* the list of its entries [key, value] in insertion order.                *)
(***************************************************************************)
\* id.replace(/\//g, '-')
sanitizeId(id) == ReplaceAll(id, "/", "-")

getCollectionKey(userId, collectionId) ==
  "users/" \o sanitizeId(userId) \o "/collections/" \o collectionId \o ".json"

getHistoryKey(userId, entryId) ==
  "users/" \o sanitizeId(userId) \o "/history/" \o entryId \o ".json"

CollectionsPrefix(userId) == "users/" \o sanitizeId(userId) \o "/collections/"

HistoryPrefix(userId) == "users/" \o sanitizeId(userId) \o "/history/"

\* Map.prototype.get: <<>> when the key is absent, else <<the value>>
MapGet(data, key) ==
  LET at == {i \in 1..Len(data) : data[i].key = key}
  IN  IF at = {} THEN <<>> ELSE <<data[CHOOSE i \in at : TRUE].value>>

\* Map.prototype.set: a present key keeps its place
MapSet(data, key, value) ==
  IF \E i \in 1..Len(data) : data[i].key = key
  THEN [i \in 1..Len(data) |->
          IF data[i].key = key THEN [key |-> key, value |-> value] ELSE data[i]]
  ELSE Append(data, [key |-> key, value |-> value])

\* the entries whose key is not in the set keys, in order
MapDelete(data, keys) == SelectSeq(data, LAMBDA e : e.key \notin keys)

\* JSON.parse of every value whose key starts with prefix, in order
ParsedUnder(data, prefix) ==
  LET under == SelectSeq(data, LAMBDA e : StartsWith(e.key, prefix))
  IN  [i \in 1..Len(under) |-> JsonParse(under[i].value)[1]]

\* what get returns for a key: <<>> for null, else <<the parsed value>>
ParsedAt(data, key) ==
  LET found == MapGet(data, key)
  IN  IF found = <<>> \/ found[1] = "" THEN <<>> ELSE JsonParse(found[1])

\* the Map after saveCollection(userId, collection)
saveCollection(data, userId, collection) ==
  MapSet(data, getCollectionKey(userId, Get(collection, "id").str), JsonText(collection))

getCollection(data, userId, collectionId) ==
  ParsedAt(data, getCollectionKey(userId, collectionId))

\* the Map after deleteCollection(userId, collectionId)
deleteCollection(data, userId, collectionId) ==
  MapDelete(data, {getCollectionKey(userId, collectionId)})

listCollections(data, userId) == ParsedUnder(data, CollectionsPrefix(userId))

\* the Map after saveHistoryEntry(userId, entry)
saveHistoryEntry(data, userId, entry) ==
  MapSet(data, getHistoryKey(userId, Get(entry, "id").str), JsonText(entry))

getHistoryEntry(data, userId, entryId) ==
  ParsedAt(data, getHistoryKey(userId, entryId))

\* the Map after clearHistory(userId) of the storage
storageClearHistory(data, userId) ==
  MapDelete(data, {data[i].key : i \in {j \in 1..Len(data) :
                     StartsWith(data[j].key, HistoryPrefix(userId))}})

(***************************************************************************)
(* The state.  Each library function is called on an input and leaves an   *)
(* outcome:                                                                *)
(*   curlInput, curlOutcome   the command parseCurl is given, what it      *)
(*                            yields                                       *)
(*   urlWritten               how the URL argument of curlInput was        *)
(*                            written: the text before the query string    *)
(*                            and the key=value pairs of the query string  *)
(*   genRequest, genOutcome   the request generateCode is given, the       *)
(*                            language and the code it returns             *)
(*   pmCollection             the collection exportToPostman is given:     *)
(*                            <<>> or <<the collection>>                   *)
(*   pmDocument               the Postman document, exported or received:  *)
(*                            <<>> or <<the document>>                     *)
(*   pmImported               what importFromPostman made of pmDocument    *)
(*   fileContent, fileOutcome the text parseImportedFile is given, what it *)
(*                            yields                                       *)
(***************************************************************************)
VARIABLES curlInput, curlOutcome, urlWritten, genRequest, genOutcome,
          pmCollection, pmDocument, pmImported, fileContent, fileOutcome,
          storeHistory, storeCall, storeAdded,
          storageData, storageCall, storageReturned, storageSaved,
          syncStore, syncTimer, isSyncing, syncAwaiting, syncPut, syncChanges,
          tokInput, tokPlace, tokState, tokReturned,
          mirrorStore, mirrorPut, mirrorRemote,
          reqState, reqCall,
          teamBucket, teamHandlers

curlVars == <<curlInput, curlOutcome, urlWritten>>
genVars == <<genRequest, genOutcome>>
pmVars == <<pmCollection, pmDocument, pmImported>>
fileVars == <<fileContent, fileOutcome>>
historyVars == <<storeHistory, storeCall, storeAdded>>
storageVars == <<storageData, storageCall, storageReturned, storageSaved>>
syncVars == <<syncStore, syncTimer, isSyncing, syncAwaiting, syncPut, syncChanges>>
tokenizeVars == <<tokInput, tokPlace, tokState, tokReturned>>
mirrorVars == <<mirrorStore, mirrorPut, mirrorRemote>>
requestVars == <<reqState, reqCall>>
teamVars == <<teamBucket, teamHandlers>>
vars == <<curlVars, genVars, pmVars, fileVars, historyVars, storageVars, syncVars, tokenizeVars, mirrorVars, requestVars, teamVars>>

NotCalled == [called |-> FALSE, threw |-> FALSE, request |-> NewRequest]

NoUrlWritten == [base |-> [text |-> "", originPath |-> ""], pairs |-> <<>>]

NotGenerated == [called |-> FALSE, language |-> "", code |-> ""]

\* no call of parseCurl is under way
CurlIdle == curlInput = "" /\ curlOutcome = NotCalled /\ urlWritten = NoUrlWritten

\* no call of generateCode is under way
GenIdle == genRequest = NewRequest /\ genOutcome = NotGenerated

NotImported == [called |-> FALSE, collection |-> <<>>, ids |-> 0]

NotParsed == [called |-> FALSE, now |-> "", threw |-> "", format |-> "", result |-> <<>>]

\* no call of the Postman bridge is under way
PostmanIdle == pmCollection = <<>> /\ pmDocument = <<>> /\ pmImported = NotImported

\* no call of parseImportedFile is under way
FileIdle == fileContent = "" /\ fileOutcome = NotParsed

NoCall == [name |-> "", entry |-> 0]

\* the store as its constructor leaves it
HistoryIdle == storeHistory = <<>> /\ storeCall = NoCall /\ storeAdded = 0
NoStorageCall == [name |-> "", userId |-> "", id |-> ""]

\* the storage is empty and nothing was asked of it
StorageIdle ==
  /\ storageData = <<>>
  /\ storageCall = NoStorageCall
  /\ storageReturned = <<>>
  /\ storageSaved = {}

\* the collections and the environments of the store, each named by the
\* number of changes made to it
Unchanged == [collections |-> 0, environments |-> 0]

\* the store is as constructed: no timer is set, no sync is under way,
\* no PUT was sent
SyncIdle ==
  /\ syncStore = Unchanged
  /\ syncTimer = <<>>
  /\ isSyncing = FALSE
  /\ syncAwaiting = {}
  /\ syncPut = <<>>
  /\ syncChanges = 0

\* tokenize is not running
TokenizeIdle ==
  /\ tokInput = ""
  /\ tokPlace = 0
  /\ tokState = TokenizerStart
  /\ tokReturned = <<>>

\* the app store holds no collection, no PUT is in flight, nothing is
\* stored remotely
MirrorIdle ==
  /\ mirrorStore = <<>>
  /\ mirrorPut = <<>>
  /\ mirrorRemote = <<>>

\* the store holds no collection and no active request
RequestsIdle ==
  /\ reqState = [collections |-> <<>>, activeRequest |-> <<>>, activeCollectionId |-> <<>>,
                 response |-> <<>>]
  /\ reqCall = ""

\* the bucket holds no team and no POST is under way
TeamsIdle ==
  /\ teamBucket = [team |-> <<>>, collections |-> {}]
  /\ teamHandlers = <<>>


(***************************************************************************)
(* Calls of parseCurl.                                                     *)
(***************************************************************************)

\* the arguments the commands are made of
CurlWords ==
  {"-X", "get", "put", "-d", "-d {}", "-F a=b", "--data-urlencode a=b", "-H 'A: b'",
   "-u u:€", "h.co", "--foo", "'x"}

MaxArgs == 3

SeqsUpTo(S, n) == UNION {[1..k -> S] : k \in 0..n}

CurlCommands == {""} \cup {"curl " \o Join(words, " ") : words \in SeqsUpTo(CurlWords, MaxArgs)}

InitCurl ==
  /\ curlInput \in CurlCommands
  /\ curlOutcome = NotCalled
  /\ urlWritten = NoUrlWritten
  /\ GenIdle
  /\ PostmanIdle
  /\ FileIdle
  /\ HistoryIdle
  /\ StorageIdle
  /\ SyncIdle
  /\ TokenizeIdle
  /\ MirrorIdle
  /\ RequestsIdle
  /\ TeamsIdle

\* request = parseCurl(curlInput)
CallParseCurl ==
  /\ ~curlOutcome.called
  /\ LET r == parseCurl(curlInput)
     IN  curlOutcome' = [called |-> TRUE, threw |-> r.threw, request |-> r.request]
  /\ UNCHANGED <<curlInput, urlWritten, genVars, pmVars, fileVars, historyVars, storageVars, syncVars, tokenizeVars, mirrorVars, requestVars, teamVars>>

NextCurl == CallParseCurl

SpecCurl == InitCurl /\ [][NextCurl]_vars

(***************************************************************************)
(* Calls of parseCurl on commands of body-producing flags.                 *)
(***************************************************************************)
BodyWords ==
  {"-d x", "-d {}", "-F a=b", "--form c=d", "-F e", "--data-urlencode f=g", "h.co", "-F"}

\* the most words of a command of body flags
MaxBodyArgs == 3

BodyCommands == {"curl " \o Join(words, " ") : words \in SeqsUpTo(BodyWords, MaxBodyArgs)}

InitCurlBody ==
  /\ curlInput \in BodyCommands
  /\ curlOutcome = NotCalled
  /\ urlWritten = NoUrlWritten
  /\ GenIdle
  /\ PostmanIdle
  /\ FileIdle
  /\ HistoryIdle
  /\ StorageIdle
  /\ SyncIdle
  /\ TokenizeIdle
  /\ MirrorIdle
  /\ RequestsIdle
  /\ TeamsIdle

SpecCurlBody == InitCurlBody /\ [][NextCurl]_vars

(***************************************************************************)
(* Calls of parseCurl on a command whose URL argument is written from its  *)
(* parts: the text before the query string, with the origin and pathname   *)
(* the URL standard gives it, and the key=value pairs, each with the value *)
(* its written form stands for.                                            *)
(***************************************************************************)
UrlBases ==
  {[text |-> "https://h.co/s", originPath |-> "https://h.co/s"],
   [text |-> "http://H.co:8080", originPath |-> "http://h.co:8080/"],
   [text |-> "https://h.co:443/a/", originPath |-> "https://h.co/a/"]}

QueryPairs ==
  {[key |-> "q", value |-> "t", means |-> "t"],
   [key |-> "q", value |-> "a+b", means |-> "a b"],
   [key |-> "p", value |-> "1", means |-> "1"],
   [key |-> "p", value |-> "", means |-> ""]}

\* the longest query string, in pairs
MaxPairs == 2

ArgsBefore == {"", "-X put ", "-H 'A: b' "}
ArgsAfter == {"", " -d {}"}

WrittenQuery(pairs) == Join([i \in 1..Len(pairs) |-> pairs[i].key \o "=" \o pairs[i].value], "&")

WrittenUrl(w) == w.base.text \o (IF w.pairs = <<>> THEN "" ELSE "?" \o WrittenQuery(w.pairs))

InitCurlUrl ==
  /\ urlWritten \in [base : UrlBases, pairs : SeqsUpTo(QueryPairs, MaxPairs)]
  /\ \E before \in ArgsBefore, after \in ArgsAfter :
       curlInput = "curl " \o before \o "'" \o WrittenUrl(urlWritten) \o "'" \o after
  /\ curlOutcome = NotCalled
  /\ GenIdle
  /\ PostmanIdle
  /\ FileIdle
  /\ HistoryIdle
  /\ StorageIdle
  /\ SyncIdle
  /\ TokenizeIdle
  /\ MirrorIdle
  /\ RequestsIdle
  /\ TeamsIdle

SpecCurlUrl == InitCurlUrl /\ [][NextCurl]_vars
(***************************************************************************)
(* Calls of parseCurl on commands of several URL arguments.                *)
(***************************************************************************)
UrlWords ==
  {"h.co/a?x=1", "'https://h.co/b?y=2&z=3'", "h.co/c", "nourl", "-X put"}

\* the most words of a command of URL arguments
MaxUrlArgs == 3

UrlCommands == {"curl " \o Join(words, " ") : words \in SeqsUpTo(UrlWords, MaxUrlArgs)}

InitCurlUrls ==
  /\ curlInput \in UrlCommands
  /\ curlOutcome = NotCalled
  /\ urlWritten = NoUrlWritten
  /\ GenIdle
  /\ PostmanIdle
  /\ FileIdle
  /\ HistoryIdle
  /\ StorageIdle
  /\ SyncIdle
  /\ TokenizeIdle
  /\ MirrorIdle
  /\ RequestsIdle
  /\ TeamsIdle

SpecCurlUrls == InitCurlUrls /\ [][NextCurl]_vars
(***************************************************************************)
(* Calls of parseCurl on commands with one quoted argument: the flag, the  *)
(* quote character, the text between the quotes and what follows.          *)
(***************************************************************************)
QuotedFlags == {"-d", "--data", "-A", "-b"}
QuoteChars == {"'", "\""}
QuotedTexts == {"x", "a b", "a  b", "a\tb", "a\nb", " a"}
QuotedTails == {"", " h.co"}

QuotedArguments == [flag : QuotedFlags, quote : QuoteChars, text : QuotedTexts, tail : QuotedTails]

QuotedCommand(w) == "curl " \o w.flag \o " " \o w.quote \o w.text \o w.quote \o w.tail

InitCurlQuoted ==
  /\ \E w \in QuotedArguments : curlInput = QuotedCommand(w)
  /\ curlOutcome = NotCalled
  /\ urlWritten = NoUrlWritten
  /\ GenIdle
  /\ PostmanIdle
  /\ FileIdle
  /\ HistoryIdle
  /\ StorageIdle
  /\ SyncIdle
  /\ TokenizeIdle
  /\ MirrorIdle
  /\ RequestsIdle
  /\ TeamsIdle

SpecCurlQuoted == InitCurlQuoted /\ [][NextCurl]_vars



(***************************************************************************)
(* Calls of generateCode.                                                  *)
(***************************************************************************)
GenMethods == {"GET", "POST"}
GenUrls == {"https://h.co/s?x=1", "{{base}}/u"}
GenHeaders == {KeyValue(0, "A", "1", TRUE), KeyValue(0, "A", "2", FALSE),
               KeyValue(0, "Content-Type", "text/x", FALSE)}
GenParams == {KeyValue(0, "x", "9", TRUE), KeyValue(0, "x", "8", FALSE), KeyValue(0, "q", "a b", FALSE)}
GenBodies == {[type |-> "none"], [type |-> "json", content |-> "{}"]}

\* the longest list of headers, and of params
MaxEntries == 2

GenRequests ==
  [id : {1}, name : {"r"}, method : GenMethods, url : GenUrls,
   headers : SeqsUpTo(GenHeaders, MaxEntries), params : SeqsUpTo(GenParams, MaxEntries),
   body : GenBodies]

InitGen ==
  /\ genRequest \in GenRequests
  /\ genOutcome = NotGenerated
  /\ CurlIdle
  /\ PostmanIdle
  /\ FileIdle
  /\ HistoryIdle
  /\ StorageIdle
  /\ SyncIdle
  /\ TokenizeIdle
  /\ MirrorIdle
  /\ RequestsIdle
  /\ TeamsIdle

\* code = generateCode(genRequest, language)
CallGenerateCode ==
  /\ ~genOutcome.called
  /\ \E language \in CodeLanguage :
       genOutcome' = [called |-> TRUE, language |-> language,
                      code |-> generateCode(genRequest, language, DefaultOptions)]
  /\ UNCHANGED <<genRequest, curlVars, pmVars, fileVars, historyVars, storageVars, syncVars, tokenizeVars, mirrorVars, requestVars, teamVars>>

NextGen == CallGenerateCode

SpecGen == InitGen /\ [][NextGen]_vars

(***************************************************************************)
(* Calls of generateCode on requests with a body and Content-Type headers. *)
(***************************************************************************)
TypedHeaders ==
  {KeyValue(0, "Content-Type", "text/x", TRUE), KeyValue(0, "Content-Type", "", TRUE),
   KeyValue(0, "Content-Type", "text/y", FALSE), KeyValue(0, "A", "1", TRUE)}

TypedBodies ==
  {[type |-> "none"], [type |-> "json", content |-> "{}"], [type |-> "raw", content |-> "x"],
   [type |-> "x-www-form-urlencoded", formData |-> <<KeyValue(0, "k", "v", TRUE)>>]}

\* the longest list of headers of a request with a body
MaxTypedHeaders == 2

TypedRequests ==
  [id : {1}, name : {"r"}, method : {"POST"}, url : {"https://h.co/s"},
   headers : SeqsUpTo(TypedHeaders, MaxTypedHeaders), params : {<<>>},
   body : TypedBodies]

InitGenTyped ==
  /\ genRequest \in TypedRequests
  /\ genOutcome = NotGenerated
  /\ CurlIdle
  /\ PostmanIdle
  /\ FileIdle
  /\ HistoryIdle
  /\ StorageIdle
  /\ SyncIdle
  /\ TokenizeIdle
  /\ MirrorIdle
  /\ RequestsIdle
  /\ TeamsIdle

SpecGenTyped == InitGenTyped /\ [][NextGen]_vars
(***************************************************************************)
(* The curl text of a request, generated and parsed again: generateCode    *)
(* writes the text, parseCurl reads what was written.                      *)
(***************************************************************************)
TripMethods == {"GET", "POST", "PUT", "DELETE"}
TripUrls == {"https://h.co/s", "h.co/u"}
TripHeaders == {KeyValue(0, "A", "1", TRUE)}
TripBodies ==
  {[type |-> "none"], [type |-> "json", content |-> "{}"], [type |-> "raw", content |-> "x"],
   [type |-> "raw", content |-> ""]}

\* the longest list of headers of a request written and read again
MaxTripHeaders == 1

TripRequests ==
  [id : {1}, name : {"r"}, method : TripMethods, url : TripUrls,
   headers : SeqsUpTo(TripHeaders, MaxTripHeaders), params : {<<>>},
   body : TripBodies]

InitTrip ==
  /\ genRequest \in TripRequests
  /\ genOutcome = NotGenerated
  /\ CurlIdle
  /\ PostmanIdle
  /\ FileIdle
  /\ HistoryIdle
  /\ StorageIdle
  /\ SyncIdle
  /\ TokenizeIdle
  /\ MirrorIdle
  /\ RequestsIdle
  /\ TeamsIdle

\* code = generateCode(genRequest, 'curl'), handed on as the command to parse
WriteCurl ==
  /\ ~genOutcome.called
  /\ genOutcome' = [called |-> TRUE, language |-> "curl",
                    code |-> generateCode(genRequest, "curl", DefaultOptions)]
  /\ curlInput' = genOutcome'.code
  /\ UNCHANGED <<genRequest, curlOutcome, urlWritten, pmVars, fileVars, historyVars, storageVars, syncVars, tokenizeVars, mirrorVars, requestVars, teamVars>>

\* request = parseCurl(code)
ReadCurl ==
  /\ genOutcome.called
  /\ ~curlOutcome.called
  /\ LET r == parseCurl(curlInput)
     IN  curlOutcome' = [called |-> TRUE, threw |-> r.threw, request |-> r.request]
  /\ UNCHANGED <<curlInput, urlWritten, genVars, pmVars, fileVars, historyVars, storageVars, syncVars, tokenizeVars, mirrorVars, requestVars, teamVars>>

NextTrip == WriteCurl \/ ReadCurl

SpecTrip == InitTrip /\ [][NextTrip]_vars


(***************************************************************************)
(* Calls of exportToPostman and importFromPostman.  A collection that      *)
(* exists before the import holds ids that uuidv4 yielded earlier: the id  *)
(* of the collection is 1, and what a holder of id n holds has the ids     *)
(* n * IdBase + 1, n * IdBase + 2, ...  The import draws its ids after     *)
(* PriorIds.                                                               *)
(***************************************************************************)
IdBase == 20

PriorIds == IdBase * IdBase * IdBase * IdBase * IdBase

Created == "2024-01-01T00:00:00.000Z"

Clock == {"2024-06-01T00:00:00.000Z"}

\* the requests that a holder can hold under the id `id`
Requests(id) ==
  {[id |-> id, name |-> "list", method |-> "GET", url |-> "https://h.co/a?x=1",
    headers |-> <<KeyValue(id * IdBase + 1, "A", "1", TRUE), KeyValue(id * IdBase + 2, "B", "2", FALSE)>>,
    params |-> <<>>, body |-> [type |-> "none"], createdAt |-> Created, updatedAt |-> Created],
   [id |-> id, name |-> "add", method |-> "POST", url |-> "{{base}}/u",
    headers |-> <<[id |-> id * IdBase + 1, key |-> "Content-Type", value |-> "application/json",
                   enabled |-> TRUE, description |-> "the type"]>>,
    params |-> <<KeyValue(id * IdBase + 6, "q", "a b", FALSE), KeyValue(id * IdBase + 7, "p", "", TRUE)>>,
    body |-> [type |-> "json", content |-> "{}"], createdAt |-> Created, updatedAt |-> Created],
   [id |-> id, name |-> "", method |-> "PATCH", url |-> "",
    headers |-> <<>>, params |-> <<KeyValue(id * IdBase + 6, "q", "1", TRUE)>>,
    body |-> [type |-> "form-data",
              formData |-> <<KeyValue(id * IdBase + 11, "f", "v", TRUE),
                             KeyValue(id * IdBase + 12, "g", "", FALSE)>>],
    createdAt |-> Created, updatedAt |-> Created]}

\* the folders that a holder can hold under the id `id`
Folders(id) ==
  {[id |-> id, name |-> "empty", requests |-> <<>>, folders |-> <<>>]}
  \cup {[id |-> id, name |-> "users", description |-> "of users", requests |-> <<r>>, folders |-> <<>>] :
          r \in Requests(id * IdBase + 1)}
  \cup {[id |-> id, name |-> "outer", requests |-> <<>>,
         folders |-> <<[id |-> id * IdBase + 6, name |-> "inner", requests |-> <<r>>, folders |-> <<>>]>>] :
          r \in Requests((id * IdBase + 6) * IdBase + 1)}

\* the variables that a collection can hold under the id `id`
Variables(id) == {KeyValue(id, "base", "https://h.co", TRUE), KeyValue(id, "token", "", FALSE)}

MaxRequests == 2
MaxFolders == 1
MaxVariables == 1

\* the lists of at most n entries whose i-th entry is one of Pool(id + i)
ListsOf(Pool(_), id, n) ==
  UNION {{list \in [1..k -> UNION {Pool(id + i) : i \in 1..k}] :
            \A i \in 1..k : list[i] \in Pool(id + i)} : k \in 0..n}

Collections ==
  {[id |-> 1, name |-> "Shop", requests |-> requests, folders |-> folders, variables |-> variables,
    createdAt |-> Created, updatedAt |-> Created] :
     requests \in ListsOf(Requests, IdBase, MaxRequests),
     folders \in ListsOf(Folders, IdBase + 5, MaxFolders),
     variables \in ListsOf(Variables, IdBase + 10, MaxVariables)}
  \cup
  {[id |-> 1, name |-> "", description |-> "the shop", requests |-> requests, folders |-> folders,
    variables |-> variables, createdAt |-> Created, updatedAt |-> Created] :
     requests \in ListsOf(Requests, IdBase, MaxRequests),
     folders \in ListsOf(Folders, IdBase + 5, MaxFolders),
     variables \in ListsOf(Variables, IdBase + 10, MaxVariables)}

\* the entries of the item list of a document that was not exported here
PostmanItems ==
  {\* a request whose url is a string, without header, with one script
   JsObject(<<Prop("name", JsString("ping")),
              Prop("request", JsObject(<<Prop("method", JsString("GET")),
                                         Prop("url", JsString("https://h.co/ping"))>>)),
              Prop("event", JsArray(<<
                JsObject(<<Prop("listen", JsString("test")),
                           Prop("script", JsObject(<<Prop("exec",
                              JsArray(<<JsString("a()"), JsString("b()")>>))>>))>>),
                JsObject(<<Prop("listen", JsString("prerequest")),
                           Prop("script", JsObject(<<Prop("exec", JsArray(<<JsString(" ")>>))>>))>>)>>))>>),
   \* a request without method, with a body of form fields
   JsObject(<<Prop("name", JsString("send")),
              Prop("request", JsObject(<<
                Prop("header", JsArray(<<JsObject(<<Prop("key", JsString("A")), Prop("value", JsString("1"))>>),
                                         JsObject(<<Prop("key", JsString("B")), Prop("value", JsString("2")),
                                                    Prop("disabled", JsBoolean(TRUE))>>)>>)),
                Prop("body", JsObject(<<Prop("mode", JsString("urlencoded")),
                                        Prop("urlencoded", JsArray(<<
                                          JsObject(<<Prop("key", JsString("f")), Prop("value", JsString("v"))>>),
                                          JsObject(<<Prop("key", JsString("g")), Prop("value", JsString("w"))>>)>>))>>)),
                Prop("url", JsObject(<<Prop("raw", JsString("https://h.co/send"))>>))>>))>>),
   \* a folder of one request
   JsObject(<<Prop("name", JsString("group")), Prop("description", JsString("a group")),
              Prop("item", JsArray(<<
                JsObject(<<Prop("name", JsString("get")),
                           Prop("request", JsObject(<<Prop("method", JsString("GET")),
                                                      Prop("url", JsObject(<<
                                                        Prop("raw", JsString("/g?q=1")),
                                                        Prop("query", JsArray(<<JsObject(<<
                                                          Prop("key", JsString("q")),
                                                          Prop("value", JsString("1"))>>)>>))>>))>>))>>)>>))>>),
   \* an entry with neither request nor item
   JsObject(<<Prop("name", JsString("stray"))>>),
   \* a folder that holds such an entry
   JsObject(<<Prop("name", JsString("box")),
              Prop("item", JsArray(<<JsObject(<<Prop("name", JsString("loose"))>>)>>))>>)}

MaxItems == 2

PostmanDocuments ==
  {JsObject(<<Prop("info", JsObject(<<Prop("name", JsString("Shared")),
                                      Prop("schema", JsString(PostmanSchema))>>)),
              Prop("item", JsArray(items)),
              Prop("variable", JsArray(<<JsObject(<<Prop("key", JsString("base")),
                                                    Prop("value", JsString("https://h.co"))>>)>>))>>) :
     items \in SeqsUpTo(PostmanItems, MaxItems)}

\* a collection to export, or a document that was received
InitPostman ==
  /\ \/ pmCollection \in {<<collection>> : collection \in Collections} /\ pmDocument = <<>>
     \/ pmCollection = <<>> /\ pmDocument \in {<<document>> : document \in PostmanDocuments}
  /\ pmImported = NotImported
  /\ CurlIdle
  /\ GenIdle
  /\ FileIdle
  /\ HistoryIdle
  /\ StorageIdle
  /\ SyncIdle
  /\ TokenizeIdle
  /\ MirrorIdle
  /\ RequestsIdle
  /\ TeamsIdle

\* pmDocument = exportToPostman(pmCollection)
CallExportToPostman ==
  /\ pmCollection # <<>>
  /\ pmDocument = <<>>
  /\ pmDocument' = <<exportToPostman(pmCollection[1])>>
  /\ UNCHANGED <<pmCollection, pmImported, curlVars, genVars, fileVars, historyVars, storageVars, syncVars, tokenizeVars, mirrorVars, requestVars, teamVars>>

\* pmImported = importFromPostman(pmDocument)
CallImportFromPostman ==
  /\ pmDocument # <<>>
  /\ ~pmImported.called
  /\ \E now \in Clock :
       LET Imported(r) == [called |-> TRUE, collection |-> <<r.collection>>, ids |-> r.ids]
       IN  pmImported' = Imported(importFromPostman(pmDocument[1], PriorIds, now))
  /\ UNCHANGED <<pmCollection, pmDocument, curlVars, genVars, fileVars, historyVars, storageVars, syncVars, tokenizeVars, mirrorVars, requestVars, teamVars>>

NextPostman == CallExportToPostman \/ CallImportFromPostman

SpecPostman == InitPostman /\ [][NextPostman]_vars

(***************************************************************************)
(* Calls of exportToPostman and importFromPostman on a collection of one   *)
(* request, at top level or in a folder, with each type of body and with   *)
(* or without scripts.                                                     *)
(***************************************************************************)
\* the form fields that a body can hold under the id `id`
Fields(id) == {KeyValue(id, "f", "v", TRUE), KeyValue(id, "g", "", FALSE)}

\* the bodies of a request of id `id`
Bodies(id) ==
  {[type |-> "none"], [type |-> "binary"], [type |-> "json"], [type |-> "json", content |-> "{}"],
   [type |-> "json", content |-> ""], [type |-> "raw"], [type |-> "raw", content |-> "a text"],
   [type |-> "form-data"]}
  \cup {[type |-> type, formData |-> formData] :
          type \in {"form-data", "x-www-form-urlencoded"},
          formData \in ListsOf(Fields, id * IdBase + 10, MaxEntries)}

\* the scripts of a request, as the fields they are
ScriptChoices ==
  {<<>>,
   [testScript |-> [enabled |-> TRUE, content |-> "check()"]],
   [preRequestScript |-> [enabled |-> FALSE, content |-> "prepare()\nsign()"]],
   [testScript |-> [enabled |-> TRUE, content |-> ""],
    preRequestScript |-> [enabled |-> TRUE, content |-> "prepare()"]]}

ScriptedRequests(id) ==
  {[id |-> id, name |-> "send", method |-> "POST", url |-> "https://h.co/send", headers |-> <<>>,
    params |-> <<>>, body |-> body, createdAt |-> Created, updatedAt |-> Created] @@ scripts :
     body \in Bodies(id), scripts \in ScriptChoices}

ScriptedCollections ==
  {[id |-> 1, name |-> "Shop", requests |-> <<request>>, folders |-> <<>>, variables |-> <<>>,
    createdAt |-> Created, updatedAt |-> Created] : request \in ScriptedRequests(IdBase + 1)}
  \cup
  {[id |-> 1, name |-> "Shop", requests |-> <<>>,
    folders |-> <<[id |-> IdBase + 6, name |-> "users", requests |-> <<request>>, folders |-> <<>>]>>,
    variables |-> <<>>, createdAt |-> Created, updatedAt |-> Created] :
     request \in ScriptedRequests((IdBase + 6) * IdBase + 1)}

InitScripted ==
  /\ pmCollection \in {<<collection>> : collection \in ScriptedCollections}
  /\ pmDocument = <<>>
  /\ pmImported = NotImported
  /\ CurlIdle
  /\ GenIdle
  /\ FileIdle
  /\ HistoryIdle
  /\ StorageIdle
  /\ SyncIdle
  /\ TokenizeIdle
  /\ MirrorIdle
  /\ RequestsIdle
  /\ TeamsIdle

SpecScripted == InitScripted /\ [][NextPostman]_vars

(***************************************************************************)
(* Calls of parseImportedFile.  The texts are documents as JSON.stringify  *)
(* writes them, each made of an info, an id, a requests and an item        *)
(* property or without it, and texts written by hand.                      *)
(***************************************************************************)
InfoChoices ==
  {<<>>,
   <<Prop("info", JsObject(<<Prop("name", JsString("n"))>>))>>,
   <<Prop("info", JsObject(<<Prop("name", JsString("n")), Prop("schema", JsString(PostmanSchema))>>))>>,
   <<Prop("info", JsObject(<<Prop("schema", JsString("https://example.com/schema.json"))>>))>>,
   <<Prop("info", JsObject(<<Prop("schema", JsNumber("5"))>>))>>,
   <<Prop("info", JsObject(<<Prop("schema", Null)>>))>>,
   <<Prop("info", JsObject(<<Prop("schema", JsBoolean(TRUE))>>))>>,
   <<Prop("info", JsObject(<<Prop("schema", JsObject(<<>>))>>))>>,
   <<Prop("info", JsObject(<<Prop("name", JsString("n")),
                             Prop("schema", JsArray(<<JsString("getpostman.com")>>))>>))>>,
   <<Prop("info", Null)>>,
   <<Prop("info", JsString("getpostman.com"))>>}

IdChoices ==
  {<<>>, <<Prop("id", JsString("c1"))>>, <<Prop("id", JsString(""))>>,
   <<Prop("id", JsNumber("0"))>>, <<Prop("id", JsNumber("7"))>>}

RequestsChoices ==
  {<<>>, <<Prop("requests", JsArray(<<>>))>>, <<Prop("requests", Null)>>}

ItemChoices ==
  {<<>>,
   <<Prop("item", JsArray(<<
       JsObject(<<Prop("name", JsString("get")),
                  Prop("request", JsObject(<<Prop("method", JsString("GET")),
                                             Prop("url", JsString("https://h.co/g"))>>))>>)>>))>>}

FileDocuments ==
  {JsObject(info \o id \o requests \o item) :
     info \in InfoChoices, id \in IdChoices, requests \in RequestsChoices, item \in ItemChoices}

HandWritten ==
  {"", "null", "[]", "[1, 2]", "5", "true", "\"getpostman.com\"", "not json",
   "{\"id\":\"c1\",\"requests\":[]", "{'id':'c1','requests':[]}",
   " { \"id\" : \"c\\u0031\" ,\n \"requests\" : [ ] } ",
   "{\"id\":\"c1\",\"id\":\"\",\"requests\":[]}"}

FileContents == {JsonText(document) : document \in FileDocuments} \cup HandWritten

InitFile ==
  /\ fileContent \in FileContents
  /\ fileOutcome = NotParsed
  /\ CurlIdle
  /\ GenIdle
  /\ PostmanIdle
  /\ HistoryIdle
  /\ StorageIdle
  /\ SyncIdle
  /\ TokenizeIdle
  /\ MirrorIdle
  /\ RequestsIdle
  /\ TeamsIdle

\* fileOutcome = parseImportedFile(fileContent)
CallParseImportedFile ==
  /\ ~fileOutcome.called
  /\ \E now \in Clock :
       LET Parsed(r) == [called |-> TRUE, now |-> now, threw |-> r.threw, format |-> r.format,
                         result |-> r.result]
       IN  fileOutcome' = Parsed(parseImportedFile(fileContent, 0, now))
  /\ UNCHANGED <<fileContent, curlVars, genVars, pmVars, historyVars, storageVars, syncVars, tokenizeVars, mirrorVars, requestVars, teamVars>>

NextFile == CallParseImportedFile

SpecFile == InitFile /\ [][NextFile]_vars

(***************************************************************************)
(* Calls of addHistoryEntry, setHistory and clearHistory on one store.     *)
(* storeCall is the last call, storeAdded the number of entries made so    *)
(* far: the entry that addHistoryEntry is given is a new one.              *)
(***************************************************************************)
\* the most entries that are made
MaxAdded == 102

\* the lists that setHistory is given: entries loaded from the storage
LoadedLengths == {0, 1, 100, 101, 150}

LoadedHistories == {[i \in 1..n |-> 1000 + i] : n \in LoadedLengths}

InitHistory ==
  /\ HistoryIdle
  /\ CurlIdle
  /\ GenIdle
  /\ PostmanIdle
  /\ FileIdle
  /\ StorageIdle
  /\ SyncIdle
  /\ TokenizeIdle
  /\ MirrorIdle
  /\ RequestsIdle
  /\ TeamsIdle

CallAddHistoryEntry ==
  /\ storeAdded < MaxAdded
  /\ storeAdded' = storeAdded + 1
  /\ storeHistory' = addHistoryEntry(storeHistory, storeAdded + 1)
  /\ storeCall' = [name |-> "addHistoryEntry", entry |-> storeAdded + 1]
  /\ UNCHANGED <<curlVars, genVars, pmVars, fileVars, storageVars, syncVars, tokenizeVars, mirrorVars, requestVars, teamVars>>

CallClearHistory ==
  /\ storeHistory' = clearHistory
  /\ storeCall' = [name |-> "clearHistory", entry |-> 0]
  /\ UNCHANGED <<storeAdded, curlVars, genVars, pmVars, fileVars, storageVars, syncVars, tokenizeVars, mirrorVars, requestVars, teamVars>>

CallSetHistory ==
  /\ \E history \in LoadedHistories : storeHistory' = setHistory(history)
  /\ storeCall' = [name |-> "setHistory", entry |-> 0]
  /\ UNCHANGED <<storeAdded, curlVars, genVars, pmVars, fileVars, storageVars, syncVars, tokenizeVars, mirrorVars, requestVars, teamVars>>

NextHistory == CallAddHistoryEntry \/ CallClearHistory \/ CallSetHistory

SpecHistory == InitHistory /\ [][NextHistory]_vars
(***************************************************************************)
(* The specification of the in-memory storage: owners save, read, list and *)
(* delete collections and history entries.  storageReturned is what the    *)
(* last call resolved to, as a list: empty for null and for a result that  *)
(* carries no data.  storageSaved remembers who saved which collection.    *)
(***************************************************************************)
\* owner ids: two that differ in one character, and a third
UserIds == {"a/b", "a-b", "c"}

CollectionIds == {"x"}

EntryIds == {"h"}

StoredCollection(id) == JsObject(<<Prop("id", JsString(id)), Prop("name", JsString("Shop"))>>)

StoredEntry(id) == JsObject(<<Prop("id", JsString(id)), Prop("method", JsString("GET"))>>)

\* the most entries the Map holds
MaxStored == 2

InitStorage ==
  /\ StorageIdle
  /\ CurlIdle
  /\ GenIdle
  /\ PostmanIdle
  /\ FileIdle
  /\ HistoryIdle
  /\ SyncIdle
  /\ TokenizeIdle
  /\ MirrorIdle
  /\ RequestsIdle
  /\ TeamsIdle

CallSaveCollection ==
  \E userId \in UserIds, id \in CollectionIds :
    /\ Len(saveCollection(storageData, userId, StoredCollection(id))) <= MaxStored
    /\ storageData' = saveCollection(storageData, userId, StoredCollection(id))
    /\ storageCall' = [name |-> "saveCollection", userId |-> userId, id |-> id]
    /\ storageReturned' = <<>>
    /\ storageSaved' = storageSaved \cup {<<userId, StoredCollection(id)>>}
    /\ UNCHANGED <<curlVars, genVars, pmVars, fileVars, historyVars, syncVars, tokenizeVars, mirrorVars, requestVars, teamVars>>

CallGetCollection ==
  \E userId \in UserIds, id \in CollectionIds :
    /\ storageCall' = [name |-> "getCollection", userId |-> userId, id |-> id]
    /\ storageReturned' = getCollection(storageData, userId, id)
    /\ UNCHANGED <<storageData, storageSaved, syncVars, tokenizeVars, mirrorVars, requestVars, teamVars>>
    /\ UNCHANGED <<curlVars, genVars, pmVars, fileVars, historyVars, syncVars, tokenizeVars, mirrorVars, requestVars, teamVars>>

CallDeleteCollection ==
  \E userId \in UserIds, id \in CollectionIds :
    /\ storageData' = deleteCollection(storageData, userId, id)
    /\ storageCall' = [name |-> "deleteCollection", userId |-> userId, id |-> id]
    /\ storageReturned' = <<>>
    /\ UNCHANGED storageSaved
    /\ UNCHANGED <<curlVars, genVars, pmVars, fileVars, historyVars, syncVars, tokenizeVars, mirrorVars, requestVars, teamVars>>

CallListCollections ==
  \E userId \in UserIds :
    /\ storageCall' = [name |-> "listCollections", userId |-> userId, id |-> ""]
    /\ storageReturned' = listCollections(storageData, userId)
    /\ UNCHANGED <<storageData, storageSaved, syncVars, tokenizeVars, mirrorVars, requestVars, teamVars>>
    /\ UNCHANGED <<curlVars, genVars, pmVars, fileVars, historyVars, syncVars, tokenizeVars, mirrorVars, requestVars, teamVars>>

CallSaveHistoryEntry ==
  \E userId \in UserIds, id \in EntryIds :
    /\ Len(saveHistoryEntry(storageData, userId, StoredEntry(id))) <= MaxStored
    /\ storageData' = saveHistoryEntry(storageData, userId, StoredEntry(id))
    /\ storageCall' = [name |-> "saveHistoryEntry", userId |-> userId, id |-> id]
    /\ storageReturned' = <<>>
    /\ UNCHANGED storageSaved
    /\ UNCHANGED <<curlVars, genVars, pmVars, fileVars, historyVars, syncVars, tokenizeVars, mirrorVars, requestVars, teamVars>>

CallGetHistoryEntry ==
  \E userId \in UserIds, id \in EntryIds :
    /\ storageCall' = [name |-> "getHistoryEntry", userId |-> userId, id |-> id]
    /\ storageReturned' = getHistoryEntry(storageData, userId, id)
    /\ UNCHANGED <<storageData, storageSaved, syncVars, tokenizeVars, mirrorVars, requestVars, teamVars>>
    /\ UNCHANGED <<curlVars, genVars, pmVars, fileVars, historyVars, syncVars, tokenizeVars, mirrorVars, requestVars, teamVars>>

CallStorageClearHistory ==
  \E userId \in UserIds :
    /\ storageData' = storageClearHistory(storageData, userId)
    /\ storageCall' = [name |-> "clearHistory", userId |-> userId, id |-> ""]
    /\ storageReturned' = <<>>
    /\ UNCHANGED storageSaved
    /\ UNCHANGED <<curlVars, genVars, pmVars, fileVars, historyVars, syncVars, tokenizeVars, mirrorVars, requestVars, teamVars>>

NextStorage ==
  \/ CallSaveCollection
  \/ CallGetCollection
  \/ CallDeleteCollection
  \/ CallListCollections
  \/ CallSaveHistoryEntry
  \/ CallGetHistoryEntry
  \/ CallStorageClearHistory

SpecStorage == InitStorage /\ [][NextStorage]_vars
(***************************************************************************)
(* The specification of the sync of the store to the API (StoreProvider of *)
(* src/store/store-context.tsx).  syncTimer is the pending timer of the    *)
(* debounce helper: <<>> or <<the state its callback captured>>.           *)
(* syncAwaiting holds the fetches syncToApi awaits; syncPut is the list of *)
(* the PUT bodies sent so far, each [collections, environments].           *)
(***************************************************************************)
\* the most changes of the store
MaxChanges == 4

Endpoints == {"/api/collections", "/api/environments"}

InitSync ==
  /\ SyncIdle
  /\ CurlIdle
  /\ GenIdle
  /\ PostmanIdle
  /\ FileIdle
  /\ HistoryIdle
  /\ StorageIdle
  /\ TokenizeIdle
  /\ MirrorIdle
  /\ RequestsIdle
  /\ TeamsIdle

\* debouncedSync.current(fn): the pending timer is cleared, a new one is set
createDebouncedSync(captured) == <<captured>>

\* the listener of the store: a change of the state sets the timer anew,
\* its callback holding the state after the change
StoreChanges ==
  /\ syncChanges < MaxChanges
  /\ \E field \in {"collections", "environments", "isLoading"} :
       LET newState == IF field = "isLoading" THEN syncStore
                       ELSE [syncStore EXCEPT ![field] = @ + 1]
       IN  /\ syncStore' = newState
           /\ syncTimer' = createDebouncedSync(newState)
  /\ syncChanges' = syncChanges + 1
  /\ UNCHANGED <<isSyncing, syncAwaiting, syncPut, tokenizeVars, mirrorVars, requestVars, teamVars>>
  /\ UNCHANGED <<curlVars, genVars, pmVars, fileVars, historyVars, storageVars, tokenizeVars, mirrorVars, requestVars, teamVars>>

\* the timer fires and calls syncToApi with the captured state: nothing
\* happens while a sync is under way, else both PUTs are sent
TimerFires ==
  /\ syncTimer # <<>>
  /\ syncTimer' = <<>>
  /\ IF isSyncing
     THEN UNCHANGED <<isSyncing, syncAwaiting, syncPut, tokenizeVars, mirrorVars, requestVars, teamVars>>
     ELSE /\ isSyncing' = TRUE
          /\ syncAwaiting' = Endpoints
          /\ syncPut' = Append(syncPut, syncTimer[1])
  /\ UNCHANGED <<syncStore, syncChanges, tokenizeVars, mirrorVars, requestVars, teamVars>>
  /\ UNCHANGED <<curlVars, genVars, pmVars, fileVars, historyVars, storageVars, tokenizeVars, mirrorVars, requestVars, teamVars>>

\* a fetch resolves; when both have, the sync is over
FetchResolves ==
  /\ \E endpoint \in syncAwaiting :
       /\ syncAwaiting' = syncAwaiting \ {endpoint}
       /\ isSyncing' = (syncAwaiting' # {})
  /\ UNCHANGED <<syncStore, syncTimer, syncPut, syncChanges, tokenizeVars, mirrorVars, requestVars, teamVars>>
  /\ UNCHANGED <<curlVars, genVars, pmVars, fileVars, historyVars, storageVars, tokenizeVars, mirrorVars, requestVars, teamVars>>

\* a fetch rejects: Promise.all rejects and the sync is over
FetchRejects ==
  /\ syncAwaiting # {}
  /\ syncAwaiting' = {}
  /\ isSyncing' = FALSE
  /\ UNCHANGED <<syncStore, syncTimer, syncPut, syncChanges, tokenizeVars, mirrorVars, requestVars, teamVars>>
  /\ UNCHANGED <<curlVars, genVars, pmVars, fileVars, historyVars, storageVars, tokenizeVars, mirrorVars, requestVars, teamVars>>

NextSync == StoreChanges \/ TimerFires \/ FetchResolves \/ FetchRejects

\* timers fire and fetches complete
SyncFairness ==
  /\ WF_vars(TimerFires)
  /\ WF_vars(FetchResolves \/ FetchRejects)

SpecSync == InitSync /\ [][NextSync]_vars /\ SyncFairness
(***************************************************************************)
(* The specification of the loop of tokenize: tokInput is the input,       *)
(* tokPlace the place i of the loop (1-based), tokState the locals,        *)
(* tokReturned <<>> or <<the tokens returned>>.                            *)
(***************************************************************************)
\* the characters of the inputs: a letter, the backslash, both quotes,
\* the space and the tab
TokenizerChars == {"a", "\\", "'", "\"", " ", "\t"}

\* the longest input
MaxChars == 4

RECURSIVE InputsUpTo(_)
InputsUpTo(n) ==
  IF n = 0 THEN {""}
  ELSE LET shorter == InputsUpTo(n - 1)
       IN  shorter \cup {s \o c : s \in shorter, c \in TokenizerChars}

InitTokenize ==
  /\ tokInput \in InputsUpTo(MaxChars)
  /\ tokPlace = 1
  /\ tokState = TokenizerStart
  /\ tokReturned = <<>>
  /\ CurlIdle
  /\ GenIdle
  /\ PostmanIdle
  /\ FileIdle
  /\ HistoryIdle
  /\ StorageIdle
  /\ SyncIdle
  /\ MirrorIdle
  /\ RequestsIdle
  /\ TeamsIdle

\* one turn of the for loop
TokenizeStep ==
  /\ tokReturned = <<>>
  /\ tokPlace <= Len(tokInput)
  /\ tokState' = TokenizeChar(tokState, At(tokInput, tokPlace))
  /\ tokPlace' = tokPlace + 1
  /\ UNCHANGED <<tokInput, tokReturned, mirrorVars, requestVars, teamVars>>
  /\ UNCHANGED <<curlVars, genVars, pmVars, fileVars, historyVars, storageVars, syncVars, mirrorVars, requestVars, teamVars>>

\* the loop is over: the accumulator is flushed and the tokens returned
TokenizeReturn ==
  /\ tokReturned = <<>>
  /\ tokPlace > Len(tokInput)
  /\ tokReturned' = <<TokenizerResult(tokState)>>
  /\ UNCHANGED <<tokInput, tokPlace, tokState, mirrorVars, requestVars, teamVars>>
  /\ UNCHANGED <<curlVars, genVars, pmVars, fileVars, historyVars, storageVars, syncVars, mirrorVars, requestVars, teamVars>>

NextTokenize == TokenizeStep \/ TokenizeReturn

SpecTokenize == InitTokenize /\ [][NextTokenize]_vars /\ WF_vars(NextTokenize)
(***************************************************************************)
(* The specification of the app store and its remote copy: the store's     *)
(* collections (src/store/app-store.ts), the PUT of syncToApi              *)
(* (src/store/store-context.tsx), the handlers of /api/collections and the *)
(* load on mount.  mirrorStore is the list of the store's collections,     *)
(* mirrorPut <<>> or <<the collections of the PUT in flight>>,             *)
(* mirrorRemote the objects of the bucket.                                 *)
(***************************************************************************)
\* the owner the API resolves for the session
MirrorUser == "device_1"

MirrorIds == {"p", "q", "r"}

\* the most collections of the store
MaxCollections == 2

InitMirror ==
  /\ MirrorIdle
  /\ CurlIdle
  /\ GenIdle
  /\ PostmanIdle
  /\ FileIdle
  /\ HistoryIdle
  /\ StorageIdle
  /\ SyncIdle
  /\ TokenizeIdle
  /\ RequestsIdle
  /\ TeamsIdle

\* store.addCollection(collection)
AddCollection ==
  /\ Len(mirrorStore) < MaxCollections
  /\ \E id \in MirrorIds :
       /\ \A i \in 1..Len(mirrorStore) : mirrorStore[i] # StoredCollection(id)
       /\ mirrorStore' = Append(mirrorStore, StoredCollection(id))
  /\ UNCHANGED <<mirrorPut, mirrorRemote, requestVars, teamVars>>
  /\ UNCHANGED <<curlVars, genVars, pmVars, fileVars, historyVars, storageVars, syncVars, tokenizeVars, requestVars, teamVars>>

\* store.deleteCollection(id)
DeleteCollection ==
  /\ \E id \in MirrorIds :
       /\ \E i \in 1..Len(mirrorStore) : mirrorStore[i] = StoredCollection(id)
       /\ mirrorStore' = SelectSeq(mirrorStore, LAMBDA col : col # StoredCollection(id))
  /\ UNCHANGED <<mirrorPut, mirrorRemote, requestVars, teamVars>>
  /\ UNCHANGED <<curlVars, genVars, pmVars, fileVars, historyVars, storageVars, syncVars, tokenizeVars, requestVars, teamVars>>

\* syncToApi sends PUT /api/collections with the collections of the store
SendPut ==
  /\ mirrorPut = <<>>
  /\ mirrorPut' = <<mirrorStore>>
  /\ UNCHANGED <<mirrorStore, mirrorRemote, requestVars, teamVars>>
  /\ UNCHANGED <<curlVars, genVars, pmVars, fileVars, historyVars, storageVars, syncVars, tokenizeVars, requestVars, teamVars>>

\* collections.map(collection => storage.saveCollection(userId, collection))
RECURSIVE SaveAll(_, _, _)
SaveAll(data, collections, i) ==
  IF i > Len(collections) THEN data
  ELSE SaveAll(saveCollection(data, MirrorUser, collections[i]), collections, i + 1)

\* the handler of PUT /api/collections runs and the PUT completes
PutCompletes ==
  /\ mirrorPut # <<>>
  /\ mirrorRemote' = SaveAll(mirrorRemote, mirrorPut[1], 1)
  /\ mirrorPut' = <<>>
  /\ UNCHANGED mirrorStore
  /\ UNCHANGED <<curlVars, genVars, pmVars, fileVars, historyVars, storageVars, syncVars, tokenizeVars, requestVars, teamVars>>

\* loadData of a new session: the store is as constructed and takes the
\* collections GET /api/collections returns when there are any
LoadData ==
  /\ mirrorPut = <<>>
  /\ mirrorStore' = listCollections(mirrorRemote, MirrorUser)
  /\ UNCHANGED <<mirrorPut, mirrorRemote, requestVars, teamVars>>
  /\ UNCHANGED <<curlVars, genVars, pmVars, fileVars, historyVars, storageVars, syncVars, tokenizeVars, requestVars, teamVars>>

NextMirror == AddCollection \/ DeleteCollection \/ SendPut \/ PutCompletes \/ LoadData

SpecMirror == InitMirror /\ [][NextMirror]_vars
(***************************************************************************)
(* The specification of the requests of the app store: one collection c1   *)
(* with the folder f1 and, inside it, the folder f2; each request stands   *)
(* at top level, in f1 or in f2.  reqState is the state of the store,      *)
(* reqCall the name of the last method called.                             *)
(***************************************************************************)
RequestIds == {"r1", "r2"}

\* where a request stands: at top level (<<>>) or in a folder
Places == {<<>>, <<"f1">>, <<"f2">>}

StoredRequest(id) == [id |-> id, name |-> "old", method |-> "GET", updatedAt |-> Created]

\* the requests placed at place, in the order of their ids
PlacedAt(placing, place) ==
  (IF placing["r1"] = place THEN <<StoredRequest("r1")>> ELSE <<>>)
  \o (IF placing["r2"] = place THEN <<StoredRequest("r2")>> ELSE <<>>)

PlacedCollection(placing) ==
  [id |-> "c1", updatedAt |-> Created,
   requests |-> PlacedAt(placing, <<>>),
   folders |-> <<[id |-> "f1", requests |-> PlacedAt(placing, <<"f1">>),
                  folders |-> <<[id |-> "f2", requests |-> PlacedAt(placing, <<"f2">>),
                                 folders |-> <<>>]>>]>>]

\* ids a caller may pass: those that exist and one that does not
CollectionArgs == {"c1", "c9"}
RequestArgs == RequestIds \cup {"r9"}
FolderArgs == Places \cup {<<"f9">>}

UpdatesPool == {[name |-> "new"]}

\* new Date().toISOString() at the calls
StoreNow == "2024-06-01T00:00:00.000Z"

InitRequests ==
  /\ \E placing \in [RequestIds -> Places] :
       reqState = [collections |-> <<PlacedCollection(placing)>>, activeRequest |-> <<>>,
                   activeCollectionId |-> <<>>, response |-> <<>>]
  /\ reqCall = ""
  /\ CurlIdle
  /\ GenIdle
  /\ PostmanIdle
  /\ FileIdle
  /\ HistoryIdle
  /\ StorageIdle
  /\ SyncIdle
  /\ TokenizeIdle
  /\ MirrorIdle
  /\ TeamsIdle

\* setActiveRequest(request): no response is stored, so response is null
CallSetActiveRequest ==
  /\ \E request \in {<<>>} \cup {<<r>> : r \in UNION {{col.requests[i] : i \in 1..Len(col.requests)}
                                   \cup {col.folders[1].requests[i] : i \in 1..Len(col.folders[1].requests)}
                                   \cup {col.folders[1].folders[1].requests[i] :
                                           i \in 1..Len(col.folders[1].folders[1].requests)}
                                   : col \in {reqState.collections[1]}}} :
       reqState' = [reqState EXCEPT !.activeRequest = request, !.response = <<>>]
  /\ reqCall' = "setActiveRequest"
  /\ UNCHANGED <<curlVars, genVars, pmVars, fileVars, historyVars, storageVars, syncVars, tokenizeVars, mirrorVars, teamVars>>

\* setActiveCollection(id)
CallSetActiveCollection ==
  /\ \E id \in {<<>>, <<"c1">>, <<"c9">>} :
       reqState' = [reqState EXCEPT !.activeCollectionId = id]
  /\ reqCall' = "setActiveCollection"
  /\ UNCHANGED <<curlVars, genVars, pmVars, fileVars, historyVars, storageVars, syncVars, tokenizeVars, mirrorVars, teamVars>>

CallUpdateActiveRequest ==
  /\ \E updates \in UpdatesPool :
       reqState' = updateActiveRequest(reqState, updates, StoreNow)
  /\ reqCall' = "updateActiveRequest"
  /\ UNCHANGED <<curlVars, genVars, pmVars, fileVars, historyVars, storageVars, syncVars, tokenizeVars, mirrorVars, teamVars>>

CallMoveRequestToFolder ==
  /\ \E collectionId \in CollectionArgs, requestId \in RequestArgs,
        fromFolderId \in FolderArgs, toFolderId \in FolderArgs :
       reqState' = [reqState EXCEPT !.collections =
                      moveRequestToFolder(@, collectionId, requestId, fromFolderId,
                                          toFolderId, StoreNow)]
  /\ reqCall' = "moveRequestToFolder"
  /\ UNCHANGED <<curlVars, genVars, pmVars, fileVars, historyVars, storageVars, syncVars, tokenizeVars, mirrorVars, teamVars>>

NextRequests ==
  \/ CallSetActiveRequest
  \/ CallSetActiveCollection
  \/ CallUpdateActiveRequest
  \/ CallMoveRequestToFolder

SpecRequests == InitRequests /\ [][NextRequests]_vars
(***************************************************************************)
(* POST /api/teams/[teamId]/collections, two requests in flight.           *)
(* teamBucket is what the storage holds for the team: team.json (<<>> when *)
(* absent) and the ids of the collections stored under the team.           *)
(* teamHandlers gives every request its place in the handler, the userId   *)
(* auth() returned, the collection of its body, the team object it read    *)
(* and the status of its response (0 while it runs).                       *)
(***************************************************************************)
TeamId == "t1"

TeamMembers ==
  <<[userId |-> "u1", role |-> "owner"], [userId |-> "u2", role |-> "member"],
    [userId |-> "u3", role |-> "viewer"]>>

\* team.json with the ids shared
StoredTeam(sharedCollections) ==
  [id |-> TeamId, members |-> TeamMembers, sharedCollections |-> sharedCollections,
   updatedAt |-> "2024-01-01T00:00:00.000Z"]

Handlers == {"h1", "h2"}

\* the collection each request shares
SharedBy == [h \in Handlers |-> IF h = "h1" THEN "c1" ELSE "c2"]

\* the userId of a request: none, the members, a stranger
TeamCallers == {<<>>, <<"u1">>, <<"u2">>, <<"u3">>, <<"u9">>}

\* team.members.find(m => m.userId === userId): <<>> for undefined
FindMember(team, userId) ==
  LET hits == {i \in 1..Len(team.members) : team.members[i].userId = userId}
  IN  IF hits = {} THEN <<>> ELSE <<team.members[CHOOSE i \in hits : \A j \in hits : i <= j]>>

Responded(handler, status) == [handler EXCEPT !.pc = "returned", !.status = status]

InitTeams ==
  /\ \E shared \in {<<>>, <<"c0">>} :
       \/ teamBucket = [team |-> <<StoredTeam(shared)>>,
                        collections |-> {shared[i] : i \in 1..Len(shared)}]
       \/ shared = <<>> /\ teamBucket = [team |-> <<>>, collections |-> {}]
  /\ \E callers \in [Handlers -> TeamCallers], sent \in [Handlers -> BOOLEAN] :
       teamHandlers =
         [h \in Handlers |->
            [pc |-> "getTeam", userId |-> callers[h],
             collection |-> IF sent[h] THEN <<SharedBy[h]>> ELSE <<>>,
             team |-> <<>>, status |-> 0]]
  /\ CurlIdle
  /\ GenIdle
  /\ PostmanIdle
  /\ FileIdle
  /\ HistoryIdle
  /\ StorageIdle
  /\ SyncIdle
  /\ TokenizeIdle
  /\ MirrorIdle
  /\ RequestsIdle

\* from the start of POST to the await of saveTeamCollection: auth(), getTeam,
\* the member check and the body
GetTeam(h) ==
  LET handler == teamHandlers[h]
      team == teamBucket.team
      member == IF team = <<>> \/ handler.userId = <<>> THEN <<>>
                ELSE FindMember(team[1], handler.userId[1])
      after == IF handler.userId = <<>> THEN Responded(handler, 401)
               ELSE IF team = <<>> THEN Responded(handler, 404)
               ELSE IF member = <<>> \/ member[1].role = "viewer" THEN Responded(handler, 403)
               ELSE IF handler.collection = <<>> THEN Responded([handler EXCEPT !.team = team], 400)
               ELSE [handler EXCEPT !.pc = "saveTeamCollection", !.team = team]
  IN  /\ handler.pc = "getTeam"
      /\ teamHandlers' = [teamHandlers EXCEPT ![h] = after]
      /\ UNCHANGED <<teamBucket, curlVars, genVars, pmVars, fileVars, historyVars, storageVars, syncVars, tokenizeVars, mirrorVars, requestVars>>

\* await storage.saveTeamCollection(teamId, collection)
SaveTeamCollection(h) ==
  LET handler == teamHandlers[h]
  IN  /\ handler.pc = "saveTeamCollection"
      /\ teamBucket' = [teamBucket EXCEPT !.collections = @ \cup {handler.collection[1]}]
      /\ teamHandlers' = [teamHandlers EXCEPT ![h].pc = "saveTeam"]
      /\ UNCHANGED <<curlVars, genVars, pmVars, fileVars, historyVars, storageVars, syncVars, tokenizeVars, mirrorVars, requestVars>>

\* "Update team's shared collections list", and the response
SaveTeam(h) ==
  LET handler == teamHandlers[h]
      id == handler.collection[1]
      team == handler.team[1]
      listed == \E i \in 1..Len(team.sharedCollections) : team.sharedCollections[i] = id
      pushed == [team EXCEPT !.sharedCollections = Append(@, id), !.updatedAt = StoreNow]
  IN  /\ handler.pc = "saveTeam"
      /\ teamBucket' = IF listed THEN teamBucket ELSE [teamBucket EXCEPT !.team = <<pushed>>]
      /\ teamHandlers' = [teamHandlers EXCEPT ![h] = Responded(handler, 200)]
      /\ UNCHANGED <<curlVars, genVars, pmVars, fileVars, historyVars, storageVars, syncVars, tokenizeVars, mirrorVars, requestVars>>

NextTeams ==
  \E h \in Handlers : GetTeam(h) \/ SaveTeamCollection(h) \/ SaveTeam(h)

SpecTeams == InitTeams /\ [][NextTeams]_vars







(***************************************************************************)
(* Properties of parseCurl.                                                *)
(***************************************************************************)
Returned == curlOutcome.called /\ ~curlOutcome.threw

\* the places of the token sequence where the loop reads a flag or a URL (the
\* cursor stands there at the top of a turn), from place i on
RECURSIVE CursorPlaces(_, _)
CursorPlaces(tokens, i) ==
  IF i > Len(tokens) THEN {} ELSE {i} \cup CursorPlaces(tokens, i + Consumes(tokens, i))

MethodFlags == {"-X", "--request"}
BodyFlags == {"-d", "--data", "--data-raw", "--data-binary", "-F", "--form", "--data-urlencode"}

\* the places where a flag of set flags is read and a value token follows it
FlagsWithValue(tokens, flags) ==
  {i \in CursorPlaces(tokens, 1) : tokens[i] \in flags /\ i + 1 <= Len(tokens)}

\* C3: a command with one -X/--request flag that has a value M yields method
\* M uppercased, wherever the flag stands relative to the body flags.
C3_ExplicitMethodWins ==
  Returned =>
    LET tokens == CurlTokens(curlInput)
        explicit == FlagsWithValue(tokens, MethodFlags)
    IN  Cardinality(explicit) = 1 =>
          \A i \in explicit : curlOutcome.request.method = ToUpperCase(tokens[i + 1])

\* C4: with no -X/--request flag the method is POST when a body-producing flag
\* is read with a value token after it, and GET otherwise.
C4_MethodInference ==
  Returned =>
    LET tokens == CurlTokens(curlInput)
    IN  (\A i \in CursorPlaces(tokens, 1) : tokens[i] \notin MethodFlags) =>
          curlOutcome.request.method =
            IF FlagsWithValue(tokens, BodyFlags) # {} THEN "POST" ELSE "GET"

\* C4's case: no method flag, a form flag with its value, and the call has returned
C4_Witness ==
  /\ Returned
  /\ LET tokens == CurlTokens(curlInput)
     IN  /\ \A i \in 1..Len(tokens) : tokens[i] \notin MethodFlags
         /\ FlagsWithValue(tokens, {"-F"}) # {}
         /\ FlagsWithValue(tokens, {"-d"}) = {}
  /\ curlOutcome.request.method = "POST"

\* C5 as stated: the url is origin+pathname and params are the written pairs
\* (ki, vi), in order, all enabled.
C5_QuerySplitAsWritten ==
  (Returned /\ urlWritten # NoUrlWritten) =>
    /\ curlOutcome.request.url = urlWritten.base.originPath
    /\ Len(curlOutcome.request.params) = Len(urlWritten.pairs)
    /\ \A i \in 1..Len(urlWritten.pairs) :
         /\ curlOutcome.request.params[i].key = urlWritten.pairs[i].key
         /\ curlOutcome.request.params[i].value = urlWritten.pairs[i].value
         /\ curlOutcome.request.params[i].enabled

\* C5 amended: the url is origin+pathname with no query string and params are
\* the pairs in order, all enabled, each value being the form-urldecoded value
\* ("+" stands for a space).
C5_QuerySplitDecoded ==
  (Returned /\ urlWritten # NoUrlWritten) =>
    /\ curlOutcome.request.url = urlWritten.base.originPath
    /\ ~Includes(curlOutcome.request.url, "?")
    /\ Len(curlOutcome.request.params) = Len(urlWritten.pairs)
    /\ \A i \in 1..Len(urlWritten.pairs) :
         /\ curlOutcome.request.params[i].key = urlWritten.pairs[i].key
         /\ curlOutcome.request.params[i].value = urlWritten.pairs[i].means
         /\ curlOutcome.request.params[i].enabled

\* C5's case: a URL with two pairs of different keys was parsed
C5_Witness ==
  /\ Returned
  /\ Len(urlWritten.pairs) = 2
  /\ urlWritten.pairs[1].key # urlWritten.pairs[2].key
  /\ Len(curlOutcome.request.params) = 2

\* no token of the command is taken for the URL
NoUrlAccepted(tokens) ==
  \A i \in CursorPlaces(tokens, 1) :
    ~(tokens[i] \notin ValueFlags /\ tokens[i] # "--compressed"
      /\ IsUrlToken(tokens[i]) /\ LooksLikeUrl(CleanUrl(tokens[i])))

\* C9: every call of parseCurl returns a request, and the request's url is ""
\* when no token is taken for the URL.
C9_NeverThrows ==
  curlOutcome.called =>
    /\ ~curlOutcome.threw
    /\ NoUrlAccepted(CurlTokens(curlInput)) => curlOutcome.request.url = ""

(***************************************************************************)
(* Properties of generateCode.                                             *)
(***************************************************************************)
\* the request with every disabled header and param removed
WithoutDisabled(request) ==
  [request EXCEPT !.headers = SelectSeq(@, LAMBDA h : h.enabled),
                  !.params = SelectSeq(@, LAMBDA p : p.enabled)]

\* C2: in each of the nine languages the code generated for a request is the
\* code generated for the request with its disabled headers and params removed.
C2_DisabledContributeNothing ==
  genOutcome.called =>
    genOutcome.code = generateCode(WithoutDisabled(genRequest), genOutcome.language, DefaultOptions)

\* C2's case: code was generated for a request with a disabled header, a disabled
\* param, an enabled header of the same key and an enabled param of the same key
C2_Witness ==
  /\ genOutcome.called
  /\ \E i, j \in 1..Len(genRequest.headers) :
       /\ genRequest.headers[i].enabled /\ ~genRequest.headers[j].enabled
       /\ genRequest.headers[i].key = genRequest.headers[j].key
  /\ \E i, j \in 1..Len(genRequest.params) :
       /\ genRequest.params[i].enabled /\ ~genRequest.params[j].enabled
       /\ genRequest.params[i].key = genRequest.params[j].key
  /\ Includes(genOutcome.code, "x=9")
(***************************************************************************)
(* Properties of the Postman bridge.                                       *)
(***************************************************************************)
\* the call of importFromPostman has returned
Imported == pmImported.called

\* the number of enabled entries of a list of headers or params
EnabledCount(list) == Len(SelectSeq(list, LAMBDA p : p.enabled))

\* both have a description and it is the same, or neither has one
SameDescription(a, b) ==
  /\ ("description" \in DOMAIN a) = ("description" \in DOMAIN b)
  /\ "description" \in DOMAIN a => a.description = b.description

\* as many requests, and position by position the same method, url and numbers
\* of enabled headers and params
SameRequests(a, b) ==
  /\ Len(a) = Len(b)
  /\ \A i \in 1..Len(a) :
       /\ a[i].method = b[i].method
       /\ a[i].url = b[i].url
       /\ EnabledCount(a[i].headers) = EnabledCount(b[i].headers)
       /\ EnabledCount(a[i].params) = EnabledCount(b[i].params)

\* as many folders, and position by position the same name, the same requests
\* and the same folders inside
RECURSIVE SameFolders(_, _)
SameFolders(a, b) ==
  /\ Len(a) = Len(b)
  /\ \A i \in 1..Len(a) :
       /\ a[i].name = b[i].name
       /\ SameRequests(a[i].requests, b[i].requests)
       /\ SameFolders(a[i].folders, b[i].folders)

Preserved(a, b) ==
  /\ a.name = b.name
  /\ SameDescription(a, b)
  /\ SameRequests(a.requests, b.requests)
  /\ SameFolders(a.folders, b.folders)
  /\ [i \in 1..Len(a.variables) |-> a.variables[i].key] = [i \in 1..Len(b.variables) |-> b.variables[i].key]

\* C1: importFromPostman(exportToPostman(C)) has the name and the description of C,
\* as many top-level requests, at every level of nesting and position by position
\* the same method, url, number of enabled headers and number of enabled params,
\* the same folder names and nesting, and the same variable keys.
C1_RoundTripPreserves ==
  (pmCollection # <<>> /\ Imported) => Preserved(pmCollection[1], pmImported.collection[1])

\* a collection with a description, a variable, a request with a disabled param
\* and a folder in a folder that holds a request with a disabled header has gone
\* through export and import
C1_Witness ==
  /\ pmCollection # <<>>
  /\ Imported
  /\ "description" \in DOMAIN pmCollection[1]
  /\ pmCollection[1].variables # <<>>
  /\ \E i \in 1..Len(pmCollection[1].requests) :
       EnabledCount(pmCollection[1].requests[i].params) < Len(pmCollection[1].requests[i].params)
  /\ \E i \in 1..Len(pmCollection[1].folders) :
       /\ pmCollection[1].folders[i].folders # <<>>
       /\ pmCollection[1].folders[i].folders[1].requests # <<>>
       /\ EnabledCount(pmCollection[1].folders[i].folders[1].requests[1].headers) = 1
       /\ Len(pmCollection[1].folders[i].folders[1].requests[1].headers) = 2
       /\ Len(pmImported.collection[1].folders[i].folders[1].requests[1].headers) = 2

\* the ids that a collection holds, each as often as it occurs
IdsOfKeyValues(list) == [i \in 1..Len(list) |-> list[i].id]

IdsOfRequest(request) ==
  <<request.id>> \o IdsOfKeyValues(request.headers) \o IdsOfKeyValues(request.params)
  \o IdsOfKeyValues(FormDataOf(request.body))

RECURSIVE IdsOfRequests(_)
IdsOfRequests(list) ==
  IF list = <<>> THEN <<>> ELSE IdsOfRequest(Head(list)) \o IdsOfRequests(Tail(list))

RECURSIVE IdsOfFolders(_)
IdsOfFolders(list) ==
  IF list = <<>> THEN <<>>
  ELSE <<Head(list).id>> \o IdsOfRequests(Head(list).requests) \o IdsOfFolders(Head(list).folders)
       \o IdsOfFolders(Tail(list))

IdsOfCollection(collection) ==
  <<collection.id>> \o IdsOfRequests(collection.requests) \o IdsOfFolders(collection.folders)
  \o IdsOfKeyValues(collection.variables)

\* each id was drawn during the call, and no two places hold the same id
FreshAndDistinct(ids, before, after) ==
  /\ \A i \in 1..Len(ids) : ids[i] > before /\ ids[i] <= after
  /\ \A i, j \in 1..Len(ids) : i # j => ids[i] # ids[j]

\* C8: in the collection that one call of importFromPostman returns, the id of the
\* collection, of every request, of every folder and of every header, param, form
\* field and variable was drawn from the generator during the call, and no two of
\* them are the same.
C8_IdsFreshAndDistinct ==
  Imported => FreshAndDistinct(IdsOfCollection(pmImported.collection[1]), PriorIds, pmImported.ids)

\* an import has returned a collection with a variable, a folder that holds a
\* request, and a request with two headers and two form fields
C8_Witness ==
  /\ Imported
  /\ pmImported.collection[1].variables # <<>>
  /\ \E i \in 1..Len(pmImported.collection[1].folders) :
       pmImported.collection[1].folders[i].requests # <<>>
  /\ \E i \in 1..Len(pmImported.collection[1].requests) :
       /\ Len(pmImported.collection[1].requests[i].params) >= 1
       /\ Len(FormDataOf(pmImported.collection[1].requests[i].body)) >= 2
  /\ \E i \in 1..Len(pmImported.collection[1].requests) :
       Len(pmImported.collection[1].requests[i].headers) >= 2

\* the entry has the field
HasField(entry, key) == Get(entry, key) # Undefined

\* the entries of an item list, at every level, that have a request
RECURSIVE RequestEntries(_)
RequestEntries(items) ==
  IF items = <<>> THEN 0
  ELSE (IF HasField(Head(items), "request") THEN 1
        ELSE IF HasField(Head(items), "item") THEN RequestEntries(OrEmpty(Get(Head(items), "item")))
        ELSE 0)
       + RequestEntries(Tail(items))

\* the entries of an item list, at every level, that have no request but an item list
RECURSIVE FolderEntries(_)
FolderEntries(items) ==
  IF items = <<>> THEN 0
  ELSE (IF ~HasField(Head(items), "request") /\ HasField(Head(items), "item")
        THEN 1 + FolderEntries(OrEmpty(Get(Head(items), "item")))
        ELSE 0)
       + FolderEntries(Tail(items))

\* the requests and the folders of a collection, at every level
RECURSIVE RequestTotal(_)
RequestTotal(folders) ==
  IF folders = <<>> THEN 0
  ELSE Len(Head(folders).requests) + RequestTotal(Head(folders).folders) + RequestTotal(Tail(folders))

RECURSIVE FolderTotal(_)
FolderTotal(folders) ==
  IF folders = <<>> THEN 0
  ELSE 1 + FolderTotal(Head(folders).folders) + FolderTotal(Tail(folders))

\* C10: an entry of an item list that has neither a request nor an item field
\* becomes neither a request nor a folder of the imported collection, at top level
\* and inside folders: the collection holds one request for each entry with a
\* request and one folder for each entry with an item list and nothing else.
C10_MalformedItemsDropped ==
  Imported =>
    /\ Len(pmImported.collection[1].requests) + RequestTotal(pmImported.collection[1].folders)
         = RequestEntries(OrEmpty(Get(pmDocument[1], "item")))
    /\ FolderTotal(pmImported.collection[1].folders)
         = FolderEntries(OrEmpty(Get(pmDocument[1], "item")))

(***************************************************************************)
(* Properties of parseImportedFile.                                        *)
(***************************************************************************)
\* the value that the text denotes
ParsedContent == JsonParse(fileContent)[1]

\* info.schema is a string that contains getpostman.com
PostmanShape(parsed) ==
  /\ Get(Get(parsed, "info"), "schema").type = "string"
  /\ Includes(Get(Get(parsed, "info"), "schema").str, "getpostman.com")

\* the document has an id and a defined requests field
NativeShape(parsed) == Truthy(Get(parsed, "id")) /\ HasField(parsed, "requests")

\* C6: on valid JSON, a document whose info.schema contains getpostman.com yields
\* importFromPostman of the document, also when it has id and requests; any other
\* document that has an id and a defined requests field is returned as it is.
C6_RoutesByShape ==
  (fileOutcome.called /\ JsonParse(fileContent) # <<>>) =>
    IF PostmanShape(ParsedContent)
    THEN /\ fileOutcome.threw = ""
         /\ fileOutcome.format = "postman"
         /\ fileOutcome.result = <<importFromPostman(ParsedContent, 0, fileOutcome.now).collection>>
    ELSE NativeShape(ParsedContent) =>
           /\ fileOutcome.threw = ""
           /\ fileOutcome.format = "native"
           /\ fileOutcome.result = <<ParsedContent>>

\* C7: on valid JSON whose value has neither the Postman shape nor the native
\* shape (null, arrays, scalars and objects with a non-string info.schema among
\* them) the call fails with 'Unrecognized collection format' and returns nothing;
\* on text that is not valid JSON it fails with the error of JSON.parse.
C7_UnrecognizedOrParseError ==
  fileOutcome.called =>
    IF JsonParse(fileContent) = <<>>
    THEN fileOutcome.threw = "SyntaxError" /\ fileOutcome.result = <<>>
    ELSE (~PostmanShape(ParsedContent) /\ ~NativeShape(ParsedContent)) =>
           fileOutcome.threw = "Unrecognized collection format" /\ fileOutcome.result = <<>>

\* the requests of a collection, those of its folders at every level after its own
RECURSIVE RequestsOfFolders(_)
RequestsOfFolders(folders) ==
  IF folders = <<>> THEN <<>>
  ELSE Head(folders).requests \o RequestsOfFolders(Head(folders).folders)
       \o RequestsOfFolders(Tail(folders))

AllRequests(collection) == collection.requests \o RequestsOfFolders(collection.folders)

\* an export and the import of what it wrote have returned
RoundTripDone == pmCollection # <<>> /\ Imported

\* the key, the value and the enabled flag of each entry, in order
Entries(list) ==
  [i \in 1..Len(list) |-> [key |-> list[i].key, value |-> list[i].value, enabled |-> list[i].enabled]]

\* the same type, the same content where the type is json or raw, the same form fields
SameBody(a, b) ==
  /\ a.type = b.type
  /\ a.type \in {"json", "raw"} => ContentOf(a) = ContentOf(b)
  /\ Entries(FormDataOf(a)) = Entries(FormDataOf(b))

\* C11: after export and import every request has the body type it had (none, json,
\* raw, form-data, x-www-form-urlencoded or binary), the same content of a json or
\* raw body, and the same form fields with their keys, values and enabled flags in
\* the same order.
C11_BodiesLossless ==
  RoundTripDone =>
    \A i \in 1..Len(AllRequests(pmCollection[1])) :
      SameBody(AllRequests(pmCollection[1])[i].body, AllRequests(pmImported.collection[1])[i].body)

\* the content of the script that the request has in the field, "" when it has none
ScriptOf(request, field) == IF field \in DOMAIN request THEN request[field].content ELSE ""

\* C12: after export and import every request that had a preRequestScript or a
\* testScript with content that is not empty has a script of the same content in
\* the same field.
C12_ScriptsLossless ==
  RoundTripDone =>
    \A i \in 1..Len(AllRequests(pmCollection[1])) :
      \A field \in {"preRequestScript", "testScript"} :
        ScriptOf(AllRequests(pmCollection[1])[i], field) # "" =>
          ScriptOf(AllRequests(pmImported.collection[1])[i], field)
            = ScriptOf(AllRequests(pmCollection[1])[i], field)

\* the entries of an item list that have a request, those of the folders at every
\* level after those of the list itself: the order of AllRequests
RECURSIVE RequestItems(_)
RequestItems(items) ==
  SelectSeq(items, LAMBDA entry : HasField(entry, "request"))
  \o (IF items = <<>> THEN <<>>
      ELSE (IF HasField(Head(items), "request") THEN <<>>
            ELSE RequestItems(OrEmpty(Get(Head(items), "item"))))
           \o RequestItems(SelectSeq(Tail(items), LAMBDA entry : ~HasField(entry, "request"))))

\* entry by entry, the imported list has the key and the value of the written
\* list, and an entry written without disabled is enabled
ReadAsWritten(written, list) ==
  /\ Len(written) = Len(list)
  /\ \A i \in 1..Len(list) :
       /\ list[i].key = Get(written[i], "key").str
       /\ list[i].value = Get(written[i], "value").str
       /\ ~HasField(written[i], "disabled") => list[i].enabled

\* C13: the round trip returns every header, every query param and every variable
\* with its key, its value and its enabled flag at its place in the list, disabled
\* entries included; and an entry of a document that has no disabled field is
\* imported as enabled.
C13_EntriesPreserved ==
  /\ RoundTripDone =>
       /\ Entries(pmImported.collection[1].variables) = Entries(pmCollection[1].variables)
       /\ \A i \in 1..Len(AllRequests(pmCollection[1])) :
            /\ Entries(AllRequests(pmImported.collection[1])[i].headers)
                 = Entries(AllRequests(pmCollection[1])[i].headers)
            /\ Entries(AllRequests(pmImported.collection[1])[i].params)
                 = Entries(AllRequests(pmCollection[1])[i].params)
  /\ Imported =>
       /\ ReadAsWritten(OrEmpty(Get(pmDocument[1], "variable")), pmImported.collection[1].variables)
       /\ \A i \in 1..Len(AllRequests(pmImported.collection[1])) :
            /\ ReadAsWritten(OrEmpty(Get(Get(RequestItems(OrEmpty(Get(pmDocument[1], "item")))[i],
                                             "request"), "header")),
                             AllRequests(pmImported.collection[1])[i].headers)
            /\ Get(Get(RequestItems(OrEmpty(Get(pmDocument[1], "item")))[i], "request"), "url").type
                 = "object" =>
                 ReadAsWritten(OrEmpty(Get(Get(Get(RequestItems(OrEmpty(Get(pmDocument[1], "item")))[i],
                                                   "request"), "url"), "query")),
                               AllRequests(pmImported.collection[1])[i].params)

\* a collection with a disabled variable, a request with a disabled header after
\* an enabled one and a request with a disabled param before an enabled one has
\* gone through export and import
C13_Witness ==
  /\ RoundTripDone
  /\ \E i \in 1..Len(pmCollection[1].variables) : ~pmCollection[1].variables[i].enabled
  /\ \E i \in 1..Len(AllRequests(pmCollection[1])) :
       /\ Len(AllRequests(pmCollection[1])[i].headers) = 2
       /\ ~AllRequests(pmCollection[1])[i].headers[2].enabled
       /\ ~AllRequests(pmImported.collection[1])[i].headers[2].enabled
  /\ \E i \in 1..Len(AllRequests(pmCollection[1])) :
       /\ Len(AllRequests(pmCollection[1])[i].params) = 2
       /\ ~AllRequests(pmCollection[1])[i].params[1].enabled
       /\ ~AllRequests(pmImported.collection[1])[i].params[1].enabled

(***************************************************************************)
(* Properties of generateCurl.                                             *)
(***************************************************************************)
\* the lines of the generated command: each argument stands on a line of its own
CurlLines == Split(genOutcome.code, "\n")

\* C14: the command that generateCode(request, 'curl') returns has the method
\* argument -X METHOD exactly when the method of the request is not GET: then it
\* is the first argument after curl, and for GET no argument -X is written.
C14_MethodArgument ==
  (genOutcome.called /\ genOutcome.language = "curl") =>
    /\ {i \in 1..Len(CurlLines) : StartsWith(CurlLines[i], "  -X ")}
         = (IF genRequest.method = "GET" THEN {} ELSE {2})
    /\ genRequest.method # "GET" => CurlLines[2] = "  -X " \o genRequest.method \o " \\"
    /\ Includes(genOutcome.code, "-X " \o genRequest.method) = (genRequest.method # "GET")

\* a curl command was generated for a POST request with a header
C14_Witness ==
  /\ genOutcome.called
  /\ genOutcome.language = "curl"
  /\ genRequest.method = "POST"
  /\ genRequest.headers # <<>>
  /\ Includes(genOutcome.code, "-X POST")

(***************************************************************************)
(* Properties of the history of the app store.                             *)
(***************************************************************************)
\* the step is a call of addHistoryEntry
AddedEntry == storeCall'.name = "addHistoryEntry" /\ storeAdded' = storeAdded + 1

\* C15: after any sequence of addHistoryEntry, setHistory and clearHistory the
\* history holds at most 100 entries; addHistoryEntry puts the new entry first,
\* keeps the entries that were there in their order behind it, and when that
\* makes more than 100 leaves out entries from the old end only.
C15_HistoryBounded ==
  /\ [](Len(storeHistory) <= 100)
  /\ [][AddedEntry =>
          /\ storeHistory'[1] = storeCall'.entry
          /\ Len(storeHistory') = (IF Len(storeHistory) < 100 THEN Len(storeHistory) + 1 ELSE 100)
          /\ \A i \in 2..Len(storeHistory') : storeHistory'[i] = storeHistory[i - 1]]_vars

\* an entry was added to a history that held 100 entries
C15_Witness ==
  /\ storeCall.name = "addHistoryEntry"
  /\ Len(storeHistory) = 100
  /\ storeHistory[1] = storeCall.entry
  /\ storeCall.entry > 100

(***************************************************************************)
(* Properties of the in-memory storage.                                    *)
(***************************************************************************)
\* the step is a call of clearHistory of the storage
ClearedHistory == storageCall'.name = "clearHistory" /\ storageReturned' = <<>>

\* C16: what getCollection(v, id) and listCollections(v) return was saved
\* under v, and clearHistory(u) leaves the history entries of every other
\* owner v as they were
C16_OwnersIsolated ==
  /\ [](storageCall.name \in {"getCollection", "listCollections"} =>
          \A i \in 1..Len(storageReturned) :
            <<storageCall.userId, storageReturned[i]>> \in storageSaved)
  /\ [][ClearedHistory =>
          \A v \in UserIds \ {storageCall'.userId}, id \in EntryIds :
            getHistoryEntry(storageData', v, id) = getHistoryEntry(storageData, v, id)]_vars

(***************************************************************************)
(* Properties of the sync of the store.                                    *)
(***************************************************************************)
\* the last PUT carries the collections and environments the store holds
FinalStateSent == syncPut # <<>> /\ syncPut[Len(syncPut)] = syncStore

\* C17: once the changes of the store have stopped, a PUT with the final
\* collections and environments is eventually sent
C17_FinalStateSynced == <>[](syncChanges > 0 => FinalStateSent)

(***************************************************************************)
(* Properties of tokenize.                                                 *)
(***************************************************************************)
\* the step is a turn of the loop
TokenizerTurn == tokPlace' = tokPlace + 1

\* the character the next turn of the loop reads
TokenizerChar == At(tokInput, tokPlace)

\* C18: while a quote is open, a turn on a character other than the
\* matching quote appends that character to the current token, the
\* backslash and the other quote included, and leaves the quote open
C18_QuotedCopiedLiterally ==
  [][(TokenizerTurn /\ tokState.inQuote # "" /\ TokenizerChar # tokState.inQuote) =>
       /\ tokState'.current = tokState.current \o TokenizerChar
       /\ tokState'.inQuote = tokState.inQuote
       /\ tokState'.escape = FALSE]_vars

\* C19: tokenize returns, and no token it returns is the empty string
C19_ReturnsNoEmptyToken ==
  /\ <>(tokReturned # <<>>)
  /\ [](tokReturned # <<>> =>
          \A i \in 1..Len(tokReturned[1]) : tokReturned[1][i] # "")

\* tokens on both sides of a space and a tab
C19_Witness ==
  /\ tokInput = "a \ta"
  /\ tokReturned = <<(<<"a", "a">>)>>

(***************************************************************************)
(* Properties of the body flags of parseCurl.                              *)
(***************************************************************************)
FormFlags == {"-F", "--form"}

\* the places of the form flags whose value token is a key=value field
FieldPlaces(tokens) ==
  {i \in FlagsWithValue(tokens, FormFlags) : parseFormField(tokens[i + 1], 0) # <<>>}

\* after the form flag at place i only form flags produce a body
LastBodyIsForm(tokens, i) ==
  \A j \in FlagsWithValue(tokens, BodyFlags) : j > i => tokens[j] \in FormFlags

\* C20: when a form flag with a key=value token is read and only form flags
\* follow it among the body flags, the body type is form-data and formData
\* ends with the fields of that flag and of the later ones, in token order,
\* whatever body flags were read before
C20_FormFieldAppended ==
  Returned =>
    LET tokens == CurlTokens(curlInput)
        formData == IF "formData" \in DOMAIN curlOutcome.request.body
                    THEN curlOutcome.request.body.formData ELSE <<>>
    IN  \A i \in FieldPlaces(tokens) :
          LastBodyIsForm(tokens, i) =>
            LET later == Cardinality({j \in FieldPlaces(tokens) : j > i})
                field == parseFormField(tokens[i + 1], 0)[1]
            IN  /\ curlOutcome.request.body.type = "form-data"
                /\ Len(formData) > later
                /\ formData[Len(formData) - later].key = field.key
                /\ formData[Len(formData) - later].value = field.value

(***************************************************************************)
(* Properties of getEnabledHeaders.                                        *)
(***************************************************************************)
\* the places of the enabled headers of the request with key Content-Type
TypedPlaces ==
  {i \in 1..Len(genRequest.headers) :
     genRequest.headers[i].enabled /\ genRequest.headers[i].key = "Content-Type"}

\* the value of the last of them
TypedValue == genRequest.headers[CHOOSE i \in TypedPlaces : \A j \in TypedPlaces : j <= i].value

\* C21: for a json or x-www-form-urlencoded body and a request with an
\* enabled Content-Type header, getEnabledHeaders holds one Content-Type
\* entry, with the value of the request's header, and the curl command
\* carries that one Content-Type header
C21_ContentTypeKept ==
  (genOutcome.called /\ BodyType(genRequest) \in {"json", "x-www-form-urlencoded"}
     /\ TypedPlaces # {}) =>
    LET headers == getEnabledHeaders(genRequest)
        typed == {i \in 1..Len(headers) : headers[i].key = "Content-Type"}
        lines == {i \in 1..Len(CurlLines) : StartsWith(CurlLines[i], "  -H 'Content-Type: ")}
    IN  /\ Cardinality(typed) = 1
        /\ \A i \in typed : headers[i].value = TypedValue
        /\ genOutcome.language = "curl" =>
             /\ Cardinality(lines) = 1
             /\ \A i \in lines :
                  StartsWith(CurlLines[i], "  -H 'Content-Type: " \o TypedValue \o "'")

(***************************************************************************)
(* Properties of buildFullUrl.                                             *)
(***************************************************************************)
\* the pairs of the query string of a URL text: what stands between the
\* first "?" and the fragment, split at "&"
WrittenPairs(text) ==
  LET hash == IndexOf(text, "#")
      noFragment == IF hash = 0 THEN text ELSE SubSeq(text, 1, hash - 1)
      mark == IndexOf(noFragment, "?")
  IN  IF mark = 0 \/ mark = Len(noFragment) THEN <<>>
      ELSE Split(SliceFrom(noFragment, mark + 1), "&")

\* C22: the URL generateCode writes has the pairs of the query of
\* request.url, then one pair key=value for each enabled param with a key,
\* in params order, and the curl command holds that URL
C22_ParamsAppended ==
  (genOutcome.called /\ genRequest.url # "") =>
    LET enabledParams == EnabledWithKey(genRequest.params)
        already == WrittenPairs(genRequest.url)
        pairs == WrittenPairs(buildFullUrl(genRequest))
    IN  /\ Len(pairs) = Len(already) + Len(enabledParams)
        /\ \A i \in 1..Len(already) : pairs[i] = already[i]
        /\ \A i \in 1..Len(enabledParams) :
             pairs[Len(already) + i] \in
               {FormEncode(enabledParams[i].key) \o "=" \o FormEncode(enabledParams[i].value),
                encodeURIComponent(enabledParams[i].key) \o "="
                  \o encodeURIComponent(enabledParams[i].value)}
        /\ genOutcome.language = "curl" =>
             Includes(genOutcome.code, "'" \o buildFullUrl(genRequest) \o "'")

(***************************************************************************)
(* Properties of the method parseCurl returns.                             *)
(***************************************************************************)
\* HttpMethodSchema
HttpMethod == {"GET", "POST", "PUT", "PATCH", "DELETE", "HEAD", "OPTIONS"}

\* C23: the method of the request parseCurl returns is one of GET, POST,
\* PUT, PATCH, DELETE, HEAD, OPTIONS
C23_MethodInEnum == Returned => curlOutcome.request.method \in HttpMethod

(***************************************************************************)
(* Properties of the remote copy of the store.                             *)
(***************************************************************************)
\* the elements of a list
Range(list) == {list[i] : i \in 1..Len(list)}

\* the step completes the PUT in flight
PutCompleted == mirrorPut # <<>> /\ mirrorPut' = <<>>

\* C24: when the PUT for the collections s of the store has completed, GET
\* /api/collections returns exactly the collections s
C24_RemoteMirrorsStore ==
  [][PutCompleted => Range(listCollections(mirrorRemote', MirrorUser)) = Range(mirrorPut[1])]_vars

(***************************************************************************)
(* Properties of the requests of the app store.                            *)
(***************************************************************************)
\* the requests of the folders named id, at every level
RECURSIVE RequestsOfFolder(_, _)
RequestsOfFolder(folders, id) ==
  IF folders = <<>> THEN <<>>
  ELSE (IF Head(folders).id = id THEN Head(folders).requests ELSE <<>>)
       \o RequestsOfFolder(Head(folders).folders, id)
       \o RequestsOfFolder(Tail(folders), id)

\* the requests a collection holds at a place: top level for null
RequestsAt(col, place) ==
  IF place = <<>> THEN col.requests ELSE RequestsOfFolder(col.folders, place[1])

\* how many requests of the list have the id
Copies(list, id) == Cardinality({i \in 1..Len(list) : list[i].id = id})

\* the collections of the state with the id
CollectionsOf(state, id) ==
  SelectSeq(state.collections, LAMBDA col : <<col.id>> = id)

\* C25: when the active request has a copy in the active collection, at top
\* level or in a folder, updateActiveRequest(u) applies u to every such copy
C25_CollectionCopyUpdated ==
  [][\A updates \in UpdatesPool :
       (/\ reqCall' = "updateActiveRequest"
        /\ reqState' = updateActiveRequest(reqState, updates, StoreNow)
        /\ reqState.activeRequest # <<>>
        /\ \E c \in 1..Len(CollectionsOf(reqState, reqState.activeCollectionId)) :
             Copies(AllRequests(CollectionsOf(reqState, reqState.activeCollectionId)[c]),
                    reqState.activeRequest[1].id) > 0)
       => /\ \A field \in DOMAIN updates : reqState'.activeRequest[1][field] = updates[field]
          /\ \A c \in 1..Len(CollectionsOf(reqState', reqState.activeCollectionId)) :
               LET held == AllRequests(CollectionsOf(reqState', reqState.activeCollectionId)[c])
               IN  \A r \in 1..Len(held) :
                     held[r].id = reqState.activeRequest[1].id =>
                       \A field \in DOMAIN updates : held[r][field] = updates[field]]_vars

\* C26: moveRequestToFolder keeps the multiset of the request ids of every
\* collection, and a request found in the source stands in the destination
\* afterwards, once
C26_MoveKeepsRequests ==
  [][\A collectionId \in CollectionArgs, requestId \in RequestArgs,
        fromFolderId \in FolderArgs, toFolderId \in FolderArgs :
       (/\ reqCall' = "moveRequestToFolder"
        /\ reqState'.collections =
             moveRequestToFolder(reqState.collections, collectionId, requestId,
                                 fromFolderId, toFolderId, StoreNow))
       => \A c \in 1..Len(reqState.collections) :
            LET before == reqState.collections[c]
                after == reqState'.collections[c]
            IN  /\ \A id \in RequestArgs :
                     Copies(AllRequests(after), id) = Copies(AllRequests(before), id)
                /\ (before.id = collectionId
                      /\ Copies(RequestsAt(before, fromFolderId), requestId) > 0)
                   => /\ Copies(RequestsAt(after, toFolderId), requestId) = 1
                      /\ Copies(AllRequests(after), requestId) = 1]_vars

(***************************************************************************)
(* Properties of the curl text written and read again.                     *)
(***************************************************************************)
\* C27: parseCurl of the curl text generated for a request with a non-empty
\* url returns a request of the same method, whatever the body
C27_RoundTripKeepsMethod ==
  (genOutcome.called /\ Returned /\ genRequest.url # "") =>
    curlOutcome.request.method = genRequest.method

(***************************************************************************)
(* Properties of parseCurl on commands of several URL arguments.           *)
(***************************************************************************)
\* the places of the tokens that set request.url
UrlPlaces(tokens) ==
  {i \in CursorPlaces(tokens, 1) :
     /\ tokens[i] \notin ValueFlags
     /\ tokens[i] # "--compressed"
     /\ IsUrlToken(tokens[i])
     /\ LooksLikeUrl(CleanUrl(tokens[i]))}

\* the key and value of every param, in order
KeysAndValues(params) == [i \in 1..Len(params) |-> <<params[i].key, params[i].value>>]

\* C28: the params of a parseCurl result are the query parameters of the token
\* that set the final url, and of no earlier URL token
C28_ParamsOfFinalUrl ==
  (Returned /\ UrlPlaces(CurlTokens(curlInput)) # {}) =>
    LET tokens == CurlTokens(curlInput)
        last == CHOOSE i \in UrlPlaces(tokens) : \A j \in UrlPlaces(tokens) : j <= i
    IN  KeysAndValues(curlOutcome.request.params)
          = KeysAndValues(ApplyUrl(NewRequest, tokens[last], 0).params)

(***************************************************************************)
(* Properties of parseCurl on commands with one quoted argument.           *)
(***************************************************************************)
\* what the result holds for the argument of the flag: the body content for
\* -d and --data, the value of the header pushed for -A and -b
ArgumentRead(request, flag) ==
  IF flag \in {"-d", "--data"}
  THEN (IF "content" \in DOMAIN request.body THEN <<request.body.content>> ELSE <<>>)
  ELSE [i \in 1..Len(request.headers) |-> request.headers[i].value]

\* C29: the body content (-d, --data) or header value (-A, -b) of the result
\* is the text written between the quotes, character for character
C29_QuotedTextUnchanged ==
  Returned =>
    \A w \in QuotedArguments :
      curlInput = QuotedCommand(w) => ArgumentRead(curlOutcome.request, w.flag) = <<w.text>>

(***************************************************************************)
(* Properties of the two POSTs that share collections with a team.         *)
(***************************************************************************)
\* every request has its response
AllReturned == \A h \in Handlers : teamHandlers[h].pc = "returned"

\* C30: when both POSTs have answered with success, the sharedCollections of
\* the stored team hold both collections, and every collection stored under
\* the team
C30_BothShared ==
  (teamHandlers # <<>> /\ AllReturned /\ \A h \in Handlers : teamHandlers[h].status = 200) =>
    /\ teamBucket.team # <<>>
    /\ \A h \in Handlers : SharedBy[h] \in Range(teamBucket.team[1].sharedCollections)
    /\ teamBucket.collections \subseteq Range(teamBucket.team[1].sharedCollections)

====
